---- MODULE Spec2Model ----
(***************************************************************************)
(* A model of dnaeon/go-binarytree: the Node heap built by NewNode,        *)
(* InsertLeft, InsertRight, AddSkipNodeFunc and AddAttribute, the Deque    *)
(* the walks use as their worklist, the four iterative walks, Size,        *)
(* Height, FindNode and the checks of the shape of a tree.                 *)
(*                                                                         *)
(* A *Node[T] is a positive integer (its allocation index), nil is 0.      *)
(* The fields of Node[T] are the sequences Value, Left, Right and          *)
(* skipNodeFuncs, indexed by the node.  A Deque[T] is its items slice.     *)
(* A walk is computed as the code computes it: one operator per loop       *)
(* iteration, iterated until the loop exits or the function returns.       *)
(* Every call of a callback (a SkipNodeFunc handler, the WalkFunc) is      *)
(* recorded, in order, in the trace of the walk.                           *)
(*                                                                         *)
(* The Deque is also modelled as goroutines call it: each acquisition of   *)
(* its sync.RWMutex is a step, and so is each section run under it.  A     *)
(* call can also be followed through its loop, one iteration a step.       *)
(***************************************************************************)
EXTENDS Integers, Sequences, FiniteSets, TLC

\* Bounds of the model.
MaxNodes == 5        \* nodes ever allocated by NewNode/InsertLeft/InsertRight
MaxSkipNodes == 4    \* the same, for a caller that registers skip handlers
MaxSkipFuncs == 1    \* handlers ever registered by AddSkipNodeFunc
MaxAttrs == 1        \* attributes ever held by the nodes together
MaxShapeNodes == 6   \* nodes ever allocated by a caller that classifies trees
MaxOrderNodes == 3   \* nodes ever allocated by a caller that stacks handlers
MaxOrderFuncs == 2   \* handlers that caller registers on its first node
MaxBstNodes == 3     \* nodes ever allocated by a caller that checks for a BST
MaxDotNodes == 4     \* nodes ever allocated by a caller that writes Dot
MaxWrites == 4       \* the latest Write of WriteDot that may fail
MaxRunNodes == 3     \* nodes ever allocated by a caller that follows loops
MaxVisitNodes == 3   \* nodes ever allocated by a caller whose visitor grows
MaxFrameNodes == 3   \* nodes ever allocated by a caller that makes every call
MaxAttrNodes == 2    \* nodes ever allocated by a caller that reads attributes
MaxGoroutines == 2   \* goroutines that share a Deque
MaxPushes == 3       \* items ever pushed on that Deque

VARIABLES
    Value,          \* Value[n]: the value of node n
    Left,           \* Left[n]: the left child of n, or Nil
    Right,          \* Right[n]: the right child of n, or Nil
    skipNodeFuncs,  \* skipNodeFuncs[n]: the handlers registered on n, in order
    dotAttributes,  \* dotAttributes[n]: the attribute map of n, name to value
    op,             \* the last function called
    recv,           \* its receiver
    trace,          \* the callback calls it made, in order
    ret,            \* what it returned
    deque,          \* the Deque d that goroutines share: d.items and the
                    \* embedded sync.RWMutex, its writer w and its readers r
    proc,           \* proc[g]: the call of goroutine g on d, and its result
    pushes,         \* the pushes done on d
    pops,           \* the pops done on d that returned an item
    run             \* the call in progress, when the caller follows its loop

treeVars == <<Value, Left, Right, skipNodeFuncs, dotAttributes,
              op, recv, trace, ret, run>>
dequeVars == <<deque, proc, pushes, pops>>
vars == <<Value, Left, Right, skipNodeFuncs, dotAttributes,
          op, recv, trace, ret, deque, proc, pushes, pops, run>>

Nil == 0
Nodes == 1..Len(Value)

\* error values: the nil error, the errors a WalkFunc may return, the deque's
NoErr == "nil"
Errors == {"errA", "errB"}
ErrEmptyQueue == "Queue is empty"
Panic == "panic"

\* The values the callers insert: every test of the repository labels the
\* nodes 1, 2, 3, ... in the order it creates them.
FreshValues == {Len(Value) + 1}

\* A SkipNodeFunc is the closure of TestSkipNodeHandlers, "n.Value == h",
\* named by the value h it matches.
Handlers == 1..MaxNodes
handler(h, node) == Value[node] = h

\* A WalkFunc records the node it is called with and returns wf.err on its
\* wf.failAt-th call, nil on every other call (failAt 0: it never fails).
WalkFuncs == {[failAt |-> 0, err |-> NoErr]}
             \cup [failAt : 1..MaxNodes, err : Errors]
walkFunc(wf, call) == IF call = wf.failAt THEN wf.err ELSE NoErr

\* A FindFunc is a closure like goodPredicate of TestFindNode, "n.Value is
\* one of p", named by the set p of values it matches; the empty set is
\* badPredicate.
FindFuncs == SUBSET (1..MaxNodes)
predicate(p, node) == Value[node] \in p

\* The values a caller of IsBinarySearchTree inserts, in any order and with
\* repetitions, and the comparators it passes: the order of the integers
\* and its reverse.  A comparator returns -1, 0 or 1.
BstValues == 1..4
Comparators == {"IntComparator", "ReverseComparator"}
comparator(c, a, b) ==
    LET x == IF c = "IntComparator" THEN a ELSE b
        y == IF c = "IntComparator" THEN b ELSE a
    IN IF x < y THEN -1 ELSE IF x > y THEN 1 ELSE 0

\* A map[string]string is a function from the keys it holds to their values.
\* The names and values the callers use for attributes.
EmptyMap == [k \in {} |-> ""]
AttrNames == {"color"}
AttrValues == {"green", "box"}

---------------------------------------------------------------------------
\* Deque (vendor/gopkg.in/dnaeon/go-deque.v1), single-threaded use.

New == << >>
\* PushBack adding at the front
PushBackAtFront(items, value) == <<value>> \o items

PushBack(items, value) == Append(items, value)
PushFront(items, value) == <<value>> \o items
IsEmpty(items) == Len(items) = 0
PopFront(items) ==
    IF IsEmpty(items)
    THEN [item |-> Nil, err |-> ErrEmptyQueue, items |-> items]
    ELSE [item |-> items[1], err |-> NoErr, items |-> Tail(items)]

---------------------------------------------------------------------------
\* Deque, called by goroutines.  The variable deque is the struct: d.items
\* and the embedded sync.RWMutex, held by at most one writer (w, 0 when
\* free) or by any number of readers (r).  A call of goroutine g advances by
\* steps: each acquisition of the mutex is a step, and so is the section run
\* under it together with the deferred release and the return.  proc[g]
\* holds the function g is in, where it is, its argument, the result of the
\* nested d.IsEmpty() (empty) and the results returned.

Goroutines == 1..MaxGoroutines
DequeValues == 1..2
\* "var empty T"
Zero == 0
NoCall == [fn |-> "none", pc |-> "idle", arg |-> Zero, item |-> Zero,
           err |-> NoErr, empty |-> FALSE, length |-> 0]

\* sync.RWMutex
CanLock(d) == d.w = 0 /\ d.r = {}
Lock(d, g) == [d EXCEPT !.w = g]
Unlock(d) == [d EXCEPT !.w = 0]
CanRLock(d) == d.w = 0
RLock(d, g) == [d EXCEPT !.r = @ \cup {g}]
RUnlock(d, g) == [d EXCEPT !.r = @ \ {g}]

\* a panic that no goroutine recovers ends the program
Running == \A g \in Goroutines : proc[g].pc # "panic"
At(g, fn, pc) == Running /\ proc[g].fn = fn /\ proc[g].pc = pc
Goto(g, pc) == proc' = [proc EXCEPT ![g].pc = pc]
Pushing(g) == proc[g].pc # "idle" /\ proc[g].fn \in {"PushBack", "PushFront"}

\* goroutine g calls d.fn(v)
Go(g, fn, v) ==
    /\ Running
    /\ proc[g].pc = "idle"
    /\ proc' = [proc EXCEPT ![g] =
                    [NoCall EXCEPT !.fn = fn, !.pc = "entry", !.arg = v]]
    /\ UNCHANGED <<deque, pushes, pops>>
    /\ UNCHANGED treeVars

\* d.Lock() of the function fn, which goes on at "locked"
GoLock(g, fn, pc) ==
    /\ At(g, fn, pc)
    /\ CanLock(deque)
    /\ deque' = Lock(deque, g)
    /\ Goto(g, "locked")
    /\ UNCHANGED <<pushes, pops>>
    /\ UNCHANGED treeVars

\* d.RLock() of the function fn, which goes on at "rlocked"
GoRLock(g, fn, pc) ==
    /\ At(g, fn, pc)
    /\ CanRLock(deque)
    /\ deque' = RLock(deque, g)
    /\ Goto(g, "rlocked")
    /\ UNCHANGED <<pushes, pops>>
    /\ UNCHANGED treeVars

\* return item, err
GoReturn(g, item, err) ==
    proc' = [proc EXCEPT ![g].pc = "idle", ![g].item = item, ![g].err = err]

\* an index out of range: the goroutine panics, its deferred calls run
GoPanic(g) == Goto(g, "panic")

GoPushBack(g) ==
    \/ GoLock(g, "PushBack", "entry")
    \/ /\ At(g, "PushBack", "locked")
       /\ deque' = Unlock([deque EXCEPT !.items = PushBack(@, proc[g].arg)])
       /\ Goto(g, "idle")
       /\ pushes' = pushes + 1
       /\ UNCHANGED pops
       /\ UNCHANGED treeVars

GoPushFront(g) ==
    \/ GoLock(g, "PushFront", "entry")
    \/ /\ At(g, "PushFront", "locked")
       /\ deque' = Unlock([deque EXCEPT !.items = PushFront(@, proc[g].arg)])
       /\ Goto(g, "idle")
       /\ pushes' = pushes + 1
       /\ UNCHANGED pops
       /\ UNCHANGED treeVars

\* IsEmpty, called by the caller of d or by a pop or a peek of g: the
\* section under the read lock stores len(d.items) == 0 in empty
GoIsEmpty(g) ==
    \/ \E fn \in {"IsEmpty", "PopBack", "PopFront", "PeekFront", "PeekBack"} :
          /\ At(g, fn, "entry")
          /\ CanRLock(deque)
          /\ deque' = RLock(deque, g)
          /\ Goto(g, "isEmpty")
          /\ UNCHANGED <<pushes, pops>>
          /\ UNCHANGED treeVars
    \/ /\ Running
       /\ proc[g].pc = "isEmpty"
       /\ deque' = RUnlock(deque, g)
       /\ proc' = [proc EXCEPT
                      ![g].empty = IsEmpty(deque.items),
                      ![g].pc = IF proc[g].fn = "IsEmpty"
                                THEN "idle" ELSE "checked"]
       /\ UNCHANGED <<pushes, pops>>
       /\ UNCHANGED treeVars

\* "if d.IsEmpty() { return empty, ErrEmptyQueue }"
GoEmpty(g, fn) ==
    /\ At(g, fn, "checked")
    /\ proc[g].empty
    /\ GoReturn(g, Zero, ErrEmptyQueue)
    /\ UNCHANGED <<deque, pushes, pops>>
    /\ UNCHANGED treeVars

\* PopBack taking the first item
GoPopBackFirst(g) ==
    \/ GoEmpty(g, "PopBack")
    \/ ~proc[g].empty /\ GoLock(g, "PopBack", "checked")
    \/ /\ At(g, "PopBack", "locked")
       /\ LET size == Len(deque.items)
          IN IF size = 0
             THEN GoPanic(g) /\ deque' = Unlock(deque) /\ UNCHANGED pops
             ELSE /\ GoReturn(g, deque.items[1], NoErr)
                  /\ deque' = Unlock([deque EXCEPT !.items = Tail(@)])
                  /\ pops' = pops + 1
       /\ UNCHANGED pushes
       /\ UNCHANGED treeVars

GoPopBack(g) ==
    \/ GoEmpty(g, "PopBack")
    \/ ~proc[g].empty /\ GoLock(g, "PopBack", "checked")
    \/ /\ At(g, "PopBack", "locked")
       /\ LET size == Len(deque.items)
          IN IF size = 0
             THEN GoPanic(g) /\ deque' = Unlock(deque) /\ UNCHANGED pops
             ELSE /\ GoReturn(g, deque.items[size], NoErr)
                  /\ deque' = Unlock([deque EXCEPT
                                         !.items = SubSeq(@, 1, size - 1)])
                  /\ pops' = pops + 1
       /\ UNCHANGED pushes
       /\ UNCHANGED treeVars

GoPopFront(g) ==
    \/ GoEmpty(g, "PopFront")
    \/ ~proc[g].empty /\ GoLock(g, "PopFront", "checked")
    \/ /\ At(g, "PopFront", "locked")
       /\ IF Len(deque.items) = 0
          THEN GoPanic(g) /\ deque' = Unlock(deque) /\ UNCHANGED pops
          ELSE /\ GoReturn(g, deque.items[1], NoErr)
               /\ deque' = Unlock([deque EXCEPT !.items = Tail(@)])
               /\ pops' = pops + 1
       /\ UNCHANGED pushes
       /\ UNCHANGED treeVars

GoLength(g) ==
    \/ GoRLock(g, "Length", "entry")
    \/ /\ At(g, "Length", "rlocked")
       /\ deque' = RUnlock(deque, g)
       /\ proc' = [proc EXCEPT ![g].pc = "idle",
                               ![g].length = Len(deque.items)]
       /\ UNCHANGED <<pushes, pops>>
       /\ UNCHANGED treeVars

\* PeekFront removing the item it returns
GoPeekFrontTake(g) ==
    \/ GoEmpty(g, "PeekFront")
    \/ ~proc[g].empty /\ GoRLock(g, "PeekFront", "checked")
    \/ /\ At(g, "PeekFront", "rlocked")
       /\ IF Len(deque.items) = 0
          THEN GoPanic(g) /\ deque' = RUnlock(deque, g)
          ELSE /\ GoReturn(g, deque.items[1], NoErr)
               /\ deque' = RUnlock([deque EXCEPT !.items = Tail(@)], g)
       /\ UNCHANGED <<pushes, pops>>
       /\ UNCHANGED treeVars

GoPeekFront(g) ==
    \/ GoEmpty(g, "PeekFront")
    \/ ~proc[g].empty /\ GoRLock(g, "PeekFront", "checked")
    \/ /\ At(g, "PeekFront", "rlocked")
       /\ IF Len(deque.items) = 0
          THEN GoPanic(g)
          ELSE GoReturn(g, deque.items[1], NoErr)
       /\ deque' = RUnlock(deque, g)
       /\ UNCHANGED <<pushes, pops>>
       /\ UNCHANGED treeVars

GoPeekBack(g) ==
    \/ GoEmpty(g, "PeekBack")
    \/ ~proc[g].empty /\ GoRLock(g, "PeekBack", "checked")
    \/ /\ At(g, "PeekBack", "rlocked")
       /\ LET size == Len(deque.items)
          IN IF size = 0
             THEN GoPanic(g)
             ELSE GoReturn(g, deque.items[size], NoErr)
       /\ deque' = RUnlock(deque, g)
       /\ UNCHANGED <<pushes, pops>>
       /\ UNCHANGED treeVars

\* the calls the goroutines of G make on d, and their steps
GoCall(G) ==
    \/ \E g \in G, fn \in {"PushBack", "PushFront"}, v \in DequeValues :
          /\ pushes + Cardinality({h \in Goroutines : Pushing(h)}) < MaxPushes
          /\ Go(g, fn, v)
    \/ \E g \in G, fn \in {"IsEmpty", "Length", "PopBack", "PopFront",
                            "PeekFront", "PeekBack"} : Go(g, fn, Zero)
GoStep(G) ==
    \/ \E g \in G : GoPushBack(g)
    \/ \E g \in G : GoPushFront(g)
    \/ \E g \in G : GoIsEmpty(g)
    \/ \E g \in G : GoPopBack(g)
    \/ \E g \in G : GoPopFront(g)
    \/ \E g \in G : GoLength(g)
    \/ \E g \in G : GoPeekFront(g)
    \/ \E g \in G : GoPeekBack(g)

---------------------------------------------------------------------------
\* The trace of a walk.

HandlerEv(h, node, out) ==
    [ev |-> "handler", node |-> node, h |-> h,
     out |-> IF out THEN "true" ELSE "false"]
SkipEv(node, out) ==
    [ev |-> "shouldSkipNode", node |-> node, h |-> 0,
     out |-> IF out THEN "true" ELSE "false"]
VisitEv(node, out) == [ev |-> "walkFunc", node |-> node, h |-> 0, out |-> out]

PredEv(p, node, out) ==
    [ev |-> "predicate", node |-> node, h |-> p,
     out |-> IF out THEN "true" ELSE "false"]

CmpEv(c, a, b, out) ==
    [ev |-> "comparator", node |-> <<a, b>>, h |-> c, out |-> out]

IsVisit(e) == e.ev = "walkFunc"
Visits(tr) == SelectSeq(tr, IsVisit)
Calls(tr) == Len(Visits(tr))

---------------------------------------------------------------------------
\* Node

\* shouldSkipNode: the handlers of n, in order, up to the first that returns
\* true.  Returns the result and the trace extended by the calls made.
RECURSIVE skipLoop(_, _, _, _)
skipLoop(n, node, i, tr) ==
    IF i > Len(skipNodeFuncs[n])
    THEN [skip |-> FALSE, trace |-> Append(tr, SkipEv(node, FALSE))]
    ELSE LET h == skipNodeFuncs[n][i]
             out == handler(h, node)
             tr1 == Append(tr, HandlerEv(h, node, out))
         IN IF out
            THEN [skip |-> TRUE, trace |-> Append(tr1, SkipEv(node, TRUE))]
            ELSE skipLoop(n, node, i + 1, tr1)

\* shouldSkipNode calling every handler, also after one has returned true
RECURSIVE skipLoopNoStop(_, _, _, _)
skipLoopNoStop(n, node, i, tr) ==
    IF i > Len(skipNodeFuncs[n])
    THEN [skip |-> FALSE, trace |-> Append(tr, SkipEv(node, FALSE))]
    ELSE LET h == skipNodeFuncs[n][i]
             out == handler(h, node)
             rest == skipLoopNoStop(n, node, i + 1,
                                    Append(tr, HandlerEv(h, node, out)))
         IN IF out
            THEN [skip |-> TRUE,
                  trace |-> [rest.trace EXCEPT
                                ![Len(rest.trace)] = SkipEv(node, TRUE)]]
            ELSE rest
shouldSkipNodeNoStop(n, node, tr) == skipLoopNoStop(n, node, 1, tr)

\* shouldSkipNode applying the handlers of the candidate, not of the receiver
shouldSkipNodeOfNode(n, node, tr) == skipLoop(node, node, 1, tr)

\* shouldSkipNode running the handlers of n twice
shouldSkipNodeTwice(n, node, tr) ==
    skipLoop(n, node, 1, skipLoop(n, node, 1, tr).trace)

shouldSkipNode(n, node, tr) == skipLoop(n, node, 1, tr)

\* WriteDot writes lines to an io.Writer w.  Each Fprintln or Fprintf is one
\* Write; w is named by the Write that fails (failAt 0: none does), and a
\* Write that fails adds no line.
Writers == [failAt : 0..MaxWrites]
ErrWrite == "write error"

\* "%p" of a pointer: its address in hexadecimal digits, here the digits of
\* the allocation index, most significant first
RECURSIVE FormatPointer(_)
FormatPointer(a) ==
    IF a < 16 THEN <<a>> ELSE Append(FormatPointer(a \div 16), a % 16)
\* strconv.ParseInt(digits, 16, 64)
RECURSIVE ParseInt(_)
ParseInt(digits) ==
    IF digits = << >> THEN 0
    ELSE 16 * ParseInt(SubSeq(digits, 1, Len(digits) - 1))
         + digits[Len(digits)]
dotId(n) == ParseInt(FormatPointer(n))

\* the lines of the output
OpenLine == [kind |-> "digraph {"]
DefaultsLine == [kind |-> "node [...]"]
CloseLine == [kind |-> "}"]
NodeLine(node) ==
    [kind |-> "node", id |-> dotId(node), value |-> Value[node],
     attrs |-> dotAttributes[node]]
EdgeLine(node, port, child) ==
    [kind |-> "edge", from |-> dotId(node), port |-> port, to |-> dotId(child)]

\* the walkFunc of WriteDot writing the right edge before the left edge
DotLinesRightFirst(node) ==
    <<NodeLine(node)>>
    \o (IF Right[node] # Nil
        THEN <<EdgeLine(node, "r", Right[node])>> ELSE << >>)
    \o (IF Left[node] # Nil
        THEN <<EdgeLine(node, "l", Left[node])>> ELSE << >>)

\* the walkFunc of WriteDot: the lines it writes for node when no Write fails
DotLines(node) ==
    <<NodeLine(node)>>
    \o (IF Left[node] # Nil
        THEN <<EdgeLine(node, "l", Left[node])>> ELSE << >>)
    \o (IF Right[node] # Nil
        THEN <<EdgeLine(node, "r", Right[node])>> ELSE << >>)

\* the lines the calls of walkFunc recorded in tr[i..] ask w to write
RECURSIVE DotBody(_, _)
DotBody(tr, i) ==
    IF i > Len(tr) THEN << >>
    ELSE (IF tr[i].ev = "walkFunc" THEN DotLines(tr[i].node) ELSE << >>)
         \o DotBody(tr, i + 1)

\* the walkFunc of WriteDot, called with node after the calls recorded in
\* tr, which all returned nil: it returns the error of the Write that fails
dotWalkFunc(w, tr, node) ==
    LET written == 2 + Len(DotBody(tr, 1))
    IN IF w.failAt \in (written + 1)..(written + Len(DotLines(node)))
       THEN ErrWrite ELSE NoErr

\* The state of a running walk: the local variables of the function, the
\* trace so far and, once pc is "done", the returned error.
WalkState(node, stack) ==
    [pc |-> "loop", node |-> node, stack |-> stack, result |-> New,
     trace |-> << >>, ret |-> NoErr]
Return(st, err) == [st EXCEPT !.pc = "done", !.ret = err]

\* Visit dropping the error of walkFunc
VisitDropErr(wf, st, node, cont) ==
    LET out == walkFunc(wf, Calls(st.trace) + 1)
    IN [cont EXCEPT !.trace = Append(st.trace, VisitEv(node, out))]

\* the call walkFunc(node) of a walk in state st, which continues as cont
\* when the call returns nil
Visit(wf, st, node, cont) ==
    LET out == IF "w" \in DOMAIN wf
               THEN dotWalkFunc(wf.w, st.trace, node)
               ELSE walkFunc(wf, Calls(st.trace) + 1)
        tr == Append(st.trace, VisitEv(node, out))
    IN IF out # NoErr
       THEN Return([st EXCEPT !.trace = tr], out)
       ELSE [cont EXCEPT !.trace = tr]

\* inOrderDescend pushing the node before it asks whether to skip it
RECURSIVE inOrderDescendPushFirst(_, _)
inOrderDescendPushFirst(n, st) ==
    IF st.node = Nil
    THEN st
    ELSE LET s == shouldSkipNode(n, st.node, st.trace)
             pushed == [st EXCEPT !.stack = PushFront(@, st.node),
                                  !.trace = s.trace]
         IN IF s.skip
            THEN [pushed EXCEPT !.node = Nil]
            ELSE inOrderDescendPushFirst(n, [pushed EXCEPT
                                                !.node = Left[st.node]])

\* WalkInOrder, the inner loop: push the left-descending chain from node,
\* stopping at nil or at the first node to skip.
RECURSIVE inOrderDescend(_, _)
inOrderDescend(n, st) ==
    IF st.node = Nil
    THEN st
    ELSE LET s == shouldSkipNode(n, st.node, st.trace)
         IN IF s.skip
            THEN [st EXCEPT !.node = Nil, !.trace = s.trace]
            ELSE inOrderDescend(n, [st EXCEPT !.stack = PushFront(@, st.node),
                                              !.node = Left[st.node],
                                              !.trace = s.trace])

\* InOrderIter without "node = item.Right"
InOrderIterNoRight(n, wf, st) ==
    IF ~(st.node # Nil \/ ~IsEmpty(st.stack))
    THEN Return(st, NoErr)
    ELSE LET d == inOrderDescend(n, st)
         IN IF ~IsEmpty(d.stack)
            THEN LET p == PopFront(d.stack)
                 IN IF p.err # NoErr
                    THEN Return(d, Panic)
                    ELSE Visit(wf, d, p.item,
                               [d EXCEPT !.stack = p.items, !.node = Nil])
            ELSE d

\* WalkInOrder, one iteration of the outer loop
InOrderIter(n, wf, st) ==
    IF ~(st.node # Nil \/ ~IsEmpty(st.stack))
    THEN Return(st, NoErr)
    ELSE LET d == inOrderDescend(n, st)
         IN IF ~IsEmpty(d.stack)
            THEN LET p == PopFront(d.stack)
                 IN IF p.err # NoErr
                    THEN Return(d, Panic)
                    ELSE Visit(wf, d, p.item,
                               [d EXCEPT !.stack = p.items,
                                         !.node = Right[p.item]])
            ELSE d

RECURSIVE runInOrder(_, _, _)
runInOrder(n, wf, st) ==
    IF st.pc = "done" THEN st ELSE runInOrder(n, wf, InOrderIter(n, wf, st))

WalkInOrder(n, wf) == runInOrder(n, wf, WalkState(n, New))

\* PreOrderIter with "else if" for the left child
PreOrderIterElseIf(n, wf, st) ==
    IF IsEmpty(st.stack)
    THEN Return(st, NoErr)
    ELSE LET p == PopFront(st.stack)
             node == p.item
             s == shouldSkipNode(n, node, st.trace)
             st1 == [st EXCEPT !.stack = p.items, !.trace = s.trace]
             pushed == IF Right[node] # Nil
                       THEN PushFront(p.items, Right[node])
                       ELSE IF Left[node] # Nil
                            THEN PushFront(p.items, Left[node]) ELSE p.items
         IN IF p.err # NoErr
            THEN Return(st, Panic)
            ELSE IF s.skip
                 THEN st1
                 ELSE Visit(wf, st1, node, [st1 EXCEPT !.stack = pushed])

\* PreOrderIter pushing the left child before the right child
PreOrderIterLeftFirst(n, wf, st) ==
    IF IsEmpty(st.stack)
    THEN Return(st, NoErr)
    ELSE LET p == PopFront(st.stack)
             node == p.item
             s == shouldSkipNode(n, node, st.trace)
             st1 == [st EXCEPT !.stack = p.items, !.trace = s.trace]
             withLeft == IF Left[node] # Nil
                         THEN PushFront(p.items, Left[node]) ELSE p.items
             withRight == IF Right[node] # Nil
                          THEN PushFront(withLeft, Right[node]) ELSE withLeft
         IN IF p.err # NoErr
            THEN Return(st, Panic)
            ELSE IF s.skip
                 THEN st1
                 ELSE Visit(wf, st1, node, [st1 EXCEPT !.stack = withRight])

\* PreOrderIter without the loop test "!stack.IsEmpty()"
PreOrderIterNoTest(n, wf, st) ==
    LET p == PopFront(st.stack)
        node == p.item
        s == shouldSkipNode(n, node, st.trace)
        st1 == [st EXCEPT !.stack = p.items, !.trace = s.trace]
        withRight == IF Right[node] # Nil
                     THEN PushFront(p.items, Right[node]) ELSE p.items
        withLeft == IF Left[node] # Nil
                    THEN PushFront(withRight, Left[node]) ELSE withRight
    IN IF p.err # NoErr
       THEN Return(st, Panic)
       ELSE IF s.skip
            THEN st1
            ELSE Visit(wf, st1, node, [st1 EXCEPT !.stack = withLeft])

\* PreOrderIter pushing the left child twice
PreOrderIterLeftTwice(n, wf, st) ==
    IF IsEmpty(st.stack)
    THEN Return(st, NoErr)
    ELSE LET p == PopFront(st.stack)
             node == p.item
             s == shouldSkipNode(n, node, st.trace)
             st1 == [st EXCEPT !.stack = p.items, !.trace = s.trace]
             withRight == IF Right[node] # Nil
                          THEN PushFront(p.items, Right[node]) ELSE p.items
             withLeft == IF Left[node] # Nil
                         THEN PushFront(PushFront(withRight, Left[node]),
                                        Left[node])
                         ELSE withRight
         IN IF p.err # NoErr
            THEN Return(st, Panic)
            ELSE IF s.skip
                 THEN st1
                 ELSE Visit(wf, st1, node, [st1 EXCEPT !.stack = withLeft])

\* WalkPreOrder, one iteration of the loop
PreOrderIter(n, wf, st) ==
    IF IsEmpty(st.stack)
    THEN Return(st, NoErr)
    ELSE LET p == PopFront(st.stack)
             node == p.item
             s == shouldSkipNode(n, node, st.trace)
             st1 == [st EXCEPT !.stack = p.items, !.trace = s.trace]
             withRight == IF Right[node] # Nil
                          THEN PushFront(p.items, Right[node]) ELSE p.items
             withLeft == IF Left[node] # Nil
                         THEN PushFront(withRight, Left[node]) ELSE withRight
         IN IF p.err # NoErr
            THEN Return(st, Panic)
            ELSE IF s.skip
                 THEN st1
                 ELSE Visit(wf, st1, node, [st1 EXCEPT !.stack = withLeft])

RECURSIVE runPreOrder(_, _, _)
runPreOrder(n, wf, st) ==
    IF st.pc = "done" THEN st ELSE runPreOrder(n, wf, PreOrderIter(n, wf, st))

WalkPreOrder(n, wf) == runPreOrder(n, wf, WalkState(Nil, PushFront(New, n)))

\* WriteDot: the two lines of the header, the pre-order walk with the
\* walkFunc that writes to w, the closing line.  Returns the error, the
\* lines w holds and the trace of the walk.
WriteDot(n, w) ==
    IF w.failAt = 1
    THEN [err |-> ErrWrite, out |-> << >>, trace |-> << >>]
    ELSE IF w.failAt = 2
    THEN [err |-> ErrWrite, out |-> <<OpenLine>>, trace |-> << >>]
    ELSE LET st == WalkPreOrder(n, [w |-> w])
             lines == <<OpenLine, DefaultsLine>> \o DotBody(st.trace, 1)
         IN IF st.ret # NoErr
            THEN [err |-> st.ret, out |-> SubSeq(lines, 1, w.failAt - 1),
                  trace |-> st.trace]
            ELSE IF w.failAt = Len(lines) + 1
            THEN [err |-> ErrWrite, out |-> lines, trace |-> st.trace]
            ELSE [err |-> NoErr, out |-> Append(lines, CloseLine),
                  trace |-> st.trace]

\* PostOrderIter with result.PushBack(node)
PostOrderIterPushBack(n, wf, st) ==
    IF st.pc = "loop"
    THEN IF IsEmpty(st.stack)
         THEN [st EXCEPT !.pc = "drain"]
         ELSE LET p == PopFront(st.stack)
                  node == p.item
                  s == shouldSkipNode(n, node, st.trace)
                  withLeft == IF Left[node] # Nil
                              THEN PushFront(p.items, Left[node]) ELSE p.items
                  withRight == IF Right[node] # Nil
                               THEN PushFront(withLeft, Right[node])
                               ELSE withLeft
              IN IF p.err # NoErr
                 THEN Return(st, Panic)
                 ELSE IF s.skip
                      THEN [st EXCEPT !.stack = p.items, !.trace = s.trace]
                      ELSE [st EXCEPT !.stack = withRight,
                                      !.trace = s.trace,
                                      !.result = PushBack(@, node)]
    ELSE IF IsEmpty(st.result)
         THEN Return(st, NoErr)
         ELSE LET p == PopFront(st.result)
              IN IF p.err # NoErr
                 THEN Return(st, p.err)
                 ELSE Visit(wf, st, p.item, [st EXCEPT !.result = p.items])

\* PostOrderIter calling walkFunc in its first loop for a node without
\* children
PostOrderIterVisitLeaf(n, wf, st) ==
    IF st.pc = "loop"
    THEN IF IsEmpty(st.stack)
         THEN [st EXCEPT !.pc = "drain"]
         ELSE LET p == PopFront(st.stack)
                  node == p.item
                  s == shouldSkipNode(n, node, st.trace)
                  st1 == [st EXCEPT !.stack = p.items, !.trace = s.trace]
                  withLeft == IF Left[node] # Nil
                              THEN PushFront(p.items, Left[node]) ELSE p.items
                  withRight == IF Right[node] # Nil
                               THEN PushFront(withLeft, Right[node])
                               ELSE withLeft
              IN IF p.err # NoErr
                 THEN Return(st, Panic)
                 ELSE IF s.skip
                      THEN st1
                      ELSE IF Left[node] = Nil /\ Right[node] = Nil
                           THEN Visit(wf, st1, node, st1)
                           ELSE [st1 EXCEPT !.stack = withRight,
                                            !.result = PushFront(@, node)]
    ELSE IF IsEmpty(st.result)
         THEN Return(st, NoErr)
         ELSE LET p == PopFront(st.result)
              IN IF p.err # NoErr
                 THEN Return(st, p.err)
                 ELSE Visit(wf, st, p.item, [st EXCEPT !.result = p.items])

\* WalkPostOrder, one iteration of the first loop (pc "loop": fill result)
\* or of the second (pc "drain": visit result front to back)
PostOrderIter(n, wf, st) ==
    IF st.pc = "loop"
    THEN IF IsEmpty(st.stack)
         THEN [st EXCEPT !.pc = "drain"]
         ELSE LET p == PopFront(st.stack)
                  node == p.item
                  s == shouldSkipNode(n, node, st.trace)
                  withLeft == IF Left[node] # Nil
                              THEN PushFront(p.items, Left[node]) ELSE p.items
                  withRight == IF Right[node] # Nil
                               THEN PushFront(withLeft, Right[node])
                               ELSE withLeft
              IN IF p.err # NoErr
                 THEN Return(st, Panic)
                 ELSE IF s.skip
                      THEN [st EXCEPT !.stack = p.items, !.trace = s.trace]
                      ELSE [st EXCEPT !.stack = withRight,
                                      !.trace = s.trace,
                                      !.result = PushFront(@, node)]
    ELSE IF IsEmpty(st.result)
         THEN Return(st, NoErr)
         ELSE LET p == PopFront(st.result)
              IN IF p.err # NoErr
                 THEN Return(st, p.err)
                 ELSE Visit(wf, st, p.item, [st EXCEPT !.result = p.items])

RECURSIVE runPostOrder(_, _, _)
runPostOrder(n, wf, st) ==
    IF st.pc = "done" THEN st ELSE runPostOrder(n, wf, PostOrderIter(n, wf, st))

WalkPostOrder(n, wf) == runPostOrder(n, wf, WalkState(Nil, PushFront(New, n)))

\* LevelOrderIter with queue.PushFront for the children
LevelOrderIterPushFront(n, wf, st) ==
    IF IsEmpty(st.stack)
    THEN Return(st, NoErr)
    ELSE LET p == PopFront(st.stack)
             node == p.item
             s == shouldSkipNode(n, node, st.trace)
             st1 == [st EXCEPT !.stack = p.items, !.trace = s.trace]
             withLeft == IF Left[node] # Nil
                         THEN PushFront(p.items, Left[node]) ELSE p.items
             withRight == IF Right[node] # Nil
                          THEN PushFront(withLeft, Right[node]) ELSE withLeft
         IN IF p.err # NoErr
            THEN Return(st, Panic)
            ELSE IF s.skip
                 THEN st1
                 ELSE Visit(wf, st1, node, [st1 EXCEPT !.stack = withRight])

\* LevelOrderIter pushing the children of a skipped node too
LevelOrderIterKeepChildren(n, wf, st) ==
    IF IsEmpty(st.stack)
    THEN Return(st, NoErr)
    ELSE LET p == PopFront(st.stack)
             node == p.item
             s == shouldSkipNode(n, node, st.trace)
             st1 == [st EXCEPT !.stack = p.items, !.trace = s.trace]
             withLeft == IF Left[node] # Nil
                         THEN PushBack(p.items, Left[node]) ELSE p.items
             withRight == IF Right[node] # Nil
                          THEN PushBack(withLeft, Right[node]) ELSE withLeft
         IN IF p.err # NoErr
            THEN Return(st, Panic)
            ELSE IF s.skip
                 THEN [st1 EXCEPT !.stack = withRight]
                 ELSE Visit(wf, st1, node, [st1 EXCEPT !.stack = withRight])

\* WalkLevelOrder, one iteration of the loop (st.stack is the queue)
LevelOrderIter(n, wf, st) ==
    IF IsEmpty(st.stack)
    THEN Return(st, NoErr)
    ELSE LET p == PopFront(st.stack)
             node == p.item
             s == shouldSkipNode(n, node, st.trace)
             st1 == [st EXCEPT !.stack = p.items, !.trace = s.trace]
             withLeft == IF Left[node] # Nil
                         THEN PushBack(p.items, Left[node]) ELSE p.items
             withRight == IF Right[node] # Nil
                          THEN PushBack(withLeft, Right[node]) ELSE withLeft
         IN IF p.err # NoErr
            THEN Return(st, Panic)
            ELSE IF s.skip
                 THEN st1
                 ELSE Visit(wf, st1, node, [st1 EXCEPT !.stack = withRight])

RECURSIVE runLevelOrder(_, _, _)
runLevelOrder(n, wf, st) ==
    IF st.pc = "done" THEN st
    ELSE runLevelOrder(n, wf, LevelOrderIter(n, wf, st))

WalkLevelOrder(n, wf) == runLevelOrder(n, wf, WalkState(Nil, PushBack(New, n)))

\* Size: the walkFunc closure increments size on every call and returns nil
countFunc == [failAt |-> 0, err |-> NoErr]
\* Size with size := 1
SizeFromOne(n) == 1 + Calls(WalkInOrder(n, countFunc).trace)

Size(n) == Calls(WalkInOrder(n, countFunc).trace)

\* Height: the stack holds nodeHeight items; one iteration of the loop
nodeHeight(node, height) == [node |-> node, height |-> height]

\* HeightIter pushing the right child with item.height
HeightIterRightSame(st) ==
    IF IsEmpty(st.stack)
    THEN [st EXCEPT !.pc = "done"]
    ELSE LET p == PopFront(st.stack)
             item == p.item
             max == IF item.height > st.max_height
                    THEN item.height ELSE st.max_height
             withRight == IF Right[item.node] # Nil
                          THEN PushFront(p.items,
                                   nodeHeight(Right[item.node], item.height))
                          ELSE p.items
             withLeft == IF Left[item.node] # Nil
                         THEN PushFront(withRight,
                                  nodeHeight(Left[item.node], item.height + 1))
                         ELSE withRight
         IN IF p.err # NoErr
            THEN [st EXCEPT !.pc = "done", !.panic = TRUE]
            ELSE [st EXCEPT !.stack = withLeft, !.max_height = max]

HeightIter(st) ==
    IF IsEmpty(st.stack)
    THEN [st EXCEPT !.pc = "done"]
    ELSE LET p == PopFront(st.stack)
             item == p.item
             max == IF item.height > st.max_height
                    THEN item.height ELSE st.max_height
             withRight == IF Right[item.node] # Nil
                          THEN PushFront(p.items,
                                   nodeHeight(Right[item.node], item.height + 1))
                          ELSE p.items
             withLeft == IF Left[item.node] # Nil
                         THEN PushFront(withRight,
                                  nodeHeight(Left[item.node], item.height + 1))
                         ELSE withRight
         IN IF p.err # NoErr
            THEN [st EXCEPT !.pc = "done", !.panic = TRUE]
            ELSE [st EXCEPT !.stack = withLeft, !.max_height = max]

RECURSIVE runHeight(_)
runHeight(st) == IF st.pc = "done" THEN st ELSE runHeight(HeightIter(st))

HeightState(n) ==
    [pc |-> "loop", max_height |-> 0, panic |-> FALSE,
     stack |-> PushFront(New, nodeHeight(n, 0))]
HeightRun(n) == runHeight(HeightState(n))
Height(n) == HeightRun(n).max_height

IsLeaf(n) == Left[n] = Nil /\ Right[n] = Nil

\* FindNode: the state of the search and one iteration of its loop
FindState(stack) ==
    [pc |-> "loop", stack |-> stack, trace |-> << >>, node |-> Nil,
     ok |-> FALSE, panic |-> FALSE]

\* FindNodeIter pushing the left child before the right one
FindNodeIterRightFirst(p, st) ==
    IF IsEmpty(st.stack)
    THEN [st EXCEPT !.pc = "done", !.node = Nil, !.ok = FALSE]
    ELSE LET q == PopFront(st.stack)
             node == q.item
             out == predicate(p, node)
             tr == Append(st.trace, PredEv(p, node, out))
             withLeft == IF Left[node] # Nil
                         THEN PushFront(q.items, Left[node]) ELSE q.items
             withRight == IF Right[node] # Nil
                          THEN PushFront(withLeft, Right[node]) ELSE withLeft
         IN IF q.err # NoErr
            THEN [st EXCEPT !.pc = "done", !.panic = TRUE]
            ELSE IF out
            THEN [st EXCEPT !.pc = "done", !.trace = tr,
                            !.node = node, !.ok = TRUE]
            ELSE [st EXCEPT !.stack = withRight, !.trace = tr]

\* FindNodeIter passing over a node that its own handlers skip, as the
\* walks pass over one that the handlers of their receiver skip
FindNodeIterSkip(p, st) ==
    IF IsEmpty(st.stack)
    THEN [st EXCEPT !.pc = "done", !.node = Nil, !.ok = FALSE]
    ELSE LET q == PopFront(st.stack)
             node == q.item
             s == shouldSkipNode(node, node, << >>)
             out == predicate(p, node)
             tr == Append(st.trace, PredEv(p, node, out))
             withRight == IF Right[node] # Nil
                          THEN PushFront(q.items, Right[node]) ELSE q.items
             withLeft == IF Left[node] # Nil
                         THEN PushFront(withRight, Left[node]) ELSE withRight
         IN IF q.err # NoErr
            THEN [st EXCEPT !.pc = "done", !.panic = TRUE]
            ELSE IF s.skip
            THEN [st EXCEPT !.stack = q.items]
            ELSE IF out
            THEN [st EXCEPT !.pc = "done", !.trace = tr,
                            !.node = node, !.ok = TRUE]
            ELSE [st EXCEPT !.stack = withLeft, !.trace = tr]

FindNodeIter(p, st) ==
    IF IsEmpty(st.stack)
    THEN [st EXCEPT !.pc = "done", !.node = Nil, !.ok = FALSE]
    ELSE LET q == PopFront(st.stack)
             node == q.item
             out == predicate(p, node)
             tr == Append(st.trace, PredEv(p, node, out))
             withRight == IF Right[node] # Nil
                          THEN PushFront(q.items, Right[node]) ELSE q.items
             withLeft == IF Left[node] # Nil
                         THEN PushFront(withRight, Left[node]) ELSE withRight
         IN IF q.err # NoErr
            THEN [st EXCEPT !.pc = "done", !.panic = TRUE]
            ELSE IF out
            THEN [st EXCEPT !.pc = "done", !.trace = tr,
                            !.node = node, !.ok = TRUE]
            ELSE [st EXCEPT !.stack = withLeft, !.trace = tr]

RECURSIVE runFindNode(_, _)
runFindNode(p, st) ==
    IF st.pc = "done" THEN st ELSE runFindNode(p, FindNodeIter(p, st))

FindNode(n, p) == runFindNode(p, FindState(PushFront(New, n)))

\* The state of a running check: its stack and, once pc is "done", the
\* boolean it returns.
CheckState(stack) ==
    [pc |-> "loop", stack |-> stack, ret |-> TRUE, panic |-> FALSE]
ReturnBool(st, b) == [st EXCEPT !.pc = "done", !.ret = b]

\* IsFullIter taking one child for both
IsFullIterEither(st) ==
    IF IsEmpty(st.stack)
    THEN ReturnBool(st, TRUE)
    ELSE LET p == PopFront(st.stack)
             node == p.item
             both == Left[node] # Nil \/ Right[node] # Nil
             withRight == IF Right[node] # Nil
                          THEN PushFront(p.items, Right[node]) ELSE p.items
             withLeft == IF Left[node] # Nil
                         THEN PushFront(withRight, Left[node]) ELSE withRight
         IN IF p.err # NoErr
            THEN [st EXCEPT !.pc = "done", !.panic = TRUE]
            ELSE IF IsLeaf(node)
            THEN [st EXCEPT !.stack = p.items]
            ELSE IF ~both
            THEN ReturnBool(st, FALSE)
            ELSE [st EXCEPT !.stack = withLeft]

\* IsFullIter without the IsLeaf check
IsFullIterNoLeaf(st) ==
    IF IsEmpty(st.stack)
    THEN ReturnBool(st, TRUE)
    ELSE LET p == PopFront(st.stack)
             node == p.item
             both == Left[node] # Nil /\ Right[node] # Nil
         IN IF p.err # NoErr
            THEN [st EXCEPT !.pc = "done", !.panic = TRUE]
            ELSE IF ~both
            THEN ReturnBool(st, FALSE)
            ELSE [st EXCEPT !.stack =
                     PushFront(PushFront(p.items, Right[node]), Left[node])]

\* IsFull: one iteration of the loop
IsFullIter(st) ==
    IF IsEmpty(st.stack)
    THEN ReturnBool(st, TRUE)
    ELSE LET p == PopFront(st.stack)
             node == p.item
             both == Left[node] # Nil /\ Right[node] # Nil
         IN IF p.err # NoErr
            THEN [st EXCEPT !.pc = "done", !.panic = TRUE]
            ELSE IF IsLeaf(node)
            THEN [st EXCEPT !.stack = p.items]
            ELSE IF ~both
            THEN ReturnBool(st, FALSE)
            ELSE [st EXCEPT !.stack =
                     PushFront(PushFront(p.items, Right[node]), Left[node])]

RECURSIVE runIsFull(_)
runIsFull(st) == IF st.pc = "done" THEN st ELSE runIsFull(IsFullIter(st))

IsFull(n) == runIsFull(CheckState(PushFront(New, n))).ret

\* IsDegenerateIter going down the left child only
IsDegenerateIterLeftOnly(st) ==
    IF IsEmpty(st.stack)
    THEN ReturnBool(st, TRUE)
    ELSE LET p == PopFront(st.stack)
             node == p.item
             both == Left[node] # Nil /\ Right[node] # Nil
             withLeft == IF Left[node] # Nil
                         THEN PushFront(p.items, Left[node]) ELSE p.items
         IN IF p.err # NoErr
            THEN [st EXCEPT !.pc = "done", !.panic = TRUE]
            ELSE IF IsLeaf(node)
            THEN [st EXCEPT !.stack = p.items]
            ELSE IF both
            THEN ReturnBool(st, FALSE)
            ELSE [st EXCEPT !.stack = withLeft]

\* IsDegenerate: one iteration of the loop
IsDegenerateIter(st) ==
    IF IsEmpty(st.stack)
    THEN ReturnBool(st, TRUE)
    ELSE LET p == PopFront(st.stack)
             node == p.item
             both == Left[node] # Nil /\ Right[node] # Nil
             withLeft == IF Left[node] # Nil
                         THEN PushFront(p.items, Left[node]) ELSE p.items
             withRight == IF Right[node] # Nil
                          THEN PushFront(withLeft, Right[node]) ELSE withLeft
         IN IF p.err # NoErr
            THEN [st EXCEPT !.pc = "done", !.panic = TRUE]
            ELSE IF IsLeaf(node)
            THEN [st EXCEPT !.stack = p.items]
            ELSE IF both
            THEN ReturnBool(st, FALSE)
            ELSE [st EXCEPT !.stack = withRight]

RECURSIVE runIsDegenerate(_)
runIsDegenerate(st) ==
    IF st.pc = "done" THEN st ELSE runIsDegenerate(IsDegenerateIter(st))

IsDegenerate(n) == runIsDegenerate(CheckState(PushFront(New, n))).ret

\* IsBalancedIter looking at the receiver only: no child is pushed
IsBalancedIterRootOnly(st) ==
    IF IsEmpty(st.stack)
    THEN ReturnBool(st, TRUE)
    ELSE LET p == PopFront(st.stack)
             node == p.item
             left_height == IF Left[node] # Nil
                            THEN Height(Left[node]) + 1 ELSE -1 + 1
             right_height == IF Right[node] # Nil
                             THEN Height(Right[node]) + 1 ELSE -1 + 1
             d == left_height - right_height
             diff == IF d < 0 THEN -d ELSE d
         IN IF p.err # NoErr
            THEN [st EXCEPT !.pc = "done", !.panic = TRUE]
            ELSE IF diff > 1
            THEN ReturnBool(st, FALSE)
            ELSE [st EXCEPT !.stack = p.items]

\* IsBalanced: one iteration of the loop
IsBalancedIter(st) ==
    IF IsEmpty(st.stack)
    THEN ReturnBool(st, TRUE)
    ELSE LET p == PopFront(st.stack)
             node == p.item
             left_height == IF Left[node] # Nil
                            THEN Height(Left[node]) + 1 ELSE -1 + 1
             withLeft == IF Left[node] # Nil
                         THEN PushFront(p.items, Left[node]) ELSE p.items
             right_height == IF Right[node] # Nil
                             THEN Height(Right[node]) + 1 ELSE -1 + 1
             withRight == IF Right[node] # Nil
                          THEN PushFront(withLeft, Right[node]) ELSE withLeft
             d == left_height - right_height
             diff == IF d < 0 THEN -d ELSE d
         IN IF p.err # NoErr
            THEN [st EXCEPT !.pc = "done", !.panic = TRUE]
            ELSE IF diff > 1
            THEN ReturnBool(st, FALSE)
            ELSE [st EXCEPT !.stack = withRight]

RECURSIVE runIsBalanced(_)
runIsBalanced(st) ==
    IF st.pc = "done" THEN st ELSE runIsBalanced(IsBalancedIter(st))

IsBalanced(n) ==
    IF Left[n] = Nil /\ Right[n] = Nil
    THEN TRUE
    ELSE runIsBalanced(CheckState(PushFront(New, n))).ret

\* IsCompleteTree: a level-order walk that remembers whether a missing
\* child has been seen; a child seen after that is a violation.
CompleteState(queue) ==
    [pc |-> "loop", stack |-> queue, missing |-> FALSE, ret |-> TRUE,
     panic |-> FALSE]

\* IsCompleteTreeIter forgetting a missing left child
IsCompleteTreeIterRightOnly(st) ==
    IF IsEmpty(st.stack)
    THEN ReturnBool(st, TRUE)
    ELSE LET p == PopFront(st.stack)
             node == p.item
             withLeft == IF Left[node] # Nil
                         THEN PushBack(p.items, Left[node]) ELSE p.items
             withRight == IF Right[node] # Nil
                          THEN PushBack(withLeft, Right[node]) ELSE withLeft
         IN IF p.err # NoErr
            THEN [st EXCEPT !.pc = "done", !.panic = TRUE]
            ELSE IF Left[node] # Nil /\ st.missing
            THEN ReturnBool(st, FALSE)
            ELSE IF Right[node] # Nil /\ st.missing
            THEN ReturnBool(st, FALSE)
            ELSE [st EXCEPT !.stack = withRight,
                            !.missing = st.missing \/ Right[node] = Nil]

IsCompleteTreeIter(st) ==
    IF IsEmpty(st.stack)
    THEN ReturnBool(st, TRUE)
    ELSE LET p == PopFront(st.stack)
             node == p.item
             withLeft == IF Left[node] # Nil
                         THEN PushBack(p.items, Left[node]) ELSE p.items
             missingLeft == st.missing \/ Left[node] = Nil
             withRight == IF Right[node] # Nil
                          THEN PushBack(withLeft, Right[node]) ELSE withLeft
         IN IF p.err # NoErr
            THEN [st EXCEPT !.pc = "done", !.panic = TRUE]
            ELSE IF Left[node] # Nil /\ st.missing
            THEN ReturnBool(st, FALSE)
            ELSE IF Right[node] # Nil /\ missingLeft
            THEN ReturnBool(st, FALSE)
            ELSE [st EXCEPT !.stack = withRight,
                            !.missing = missingLeft \/ Right[node] = Nil]

RECURSIVE runIsCompleteTree(_)
runIsCompleteTree(st) ==
    IF st.pc = "done" THEN st ELSE runIsCompleteTree(IsCompleteTreeIter(st))

IsCompleteTree(n) == runIsCompleteTree(CompleteState(PushBack(New, n))).ret

\* IsBinarySearchTree: an in-order walk whose visitor compares each value
\* with the one visited before it and fails at the first that is not
\* greater.  vals are the values in the order the walk visits them.
BstState(vals) == [pc |-> "loop", vals |-> vals, i |-> 2, trace |-> << >>,
                   ret |-> TRUE]

IsBinarySearchTreeIter(c, st) ==
    IF st.i > Len(st.vals)
    THEN [st EXCEPT !.pc = "done", !.ret = TRUE]
    ELSE LET out == comparator(c, st.vals[st.i - 1], st.vals[st.i])
             tr == Append(st.trace,
                          CmpEv(c, st.vals[st.i - 1], st.vals[st.i], out))
         IN IF out >= 0
            THEN [st EXCEPT !.pc = "done", !.ret = FALSE, !.trace = tr]
            ELSE [st EXCEPT !.i = st.i + 1, !.trace = tr]

RECURSIVE runIsBinarySearchTree(_, _)
runIsBinarySearchTree(c, st) ==
    IF st.pc = "done" THEN st
    ELSE runIsBinarySearchTree(c, IsBinarySearchTreeIter(c, st))

IsBinarySearchTree(n, c) ==
    LET visits == Visits(WalkInOrder(n, countFunc).trace)
        vals == [i \in 1..Len(visits) |-> Value[visits[i].node]]
    IN runIsBinarySearchTree(c, BstState(vals))

\* IsPerfectTree taking every full tree for perfect
IsPerfectTreeFull(n) == IsFull(n)

\* IsPerfectTree: the tree has as many nodes as its height can hold
IsPerfectTree(n) == Size(n) = 2 ^ (Height(n) + 1) - 1

---------------------------------------------------------------------------
\* The calls of the API.  The caller is single-threaded: it makes one call
\* at a time (op = "none" between calls), looks at what the call returned
\* and at what its callbacks recorded, and drops that before the next call.

Idle == op = "none"

Returned(name, n, tr, r) ==
    /\ op' = name
    /\ recv' = n
    /\ trace' = tr
    /\ ret' = r
    /\ UNCHANGED dequeVars
    /\ UNCHANGED run

Alloc(value) ==
    /\ Value' = Append(Value, value)
    /\ skipNodeFuncs' = Append(skipNodeFuncs, << >>)
    /\ dotAttributes' = Append(dotAttributes, EmptyMap)

NewNode(value) ==
    /\ Idle
    /\ Alloc(value)
    /\ Left' = Append(Left, Nil)
    /\ Right' = Append(Right, Nil)
    /\ Returned("NewNode", Nil, << >>, Len(Value) + 1)

\* InsertLeft hanging the previous left child under the new node
InsertLeftKeepOld(n, value) ==
    /\ Idle
    /\ Alloc(value)
    /\ Left' = [Append(Left, Left[n]) EXCEPT ![n] = Len(Value) + 1]
    /\ Right' = Append(Right, Nil)
    /\ Returned("InsertLeft", n, << >>, Len(Value) + 1)

InsertLeft(n, value) ==
    /\ Idle
    /\ Alloc(value)
    /\ Left' = [Append(Left, Nil) EXCEPT ![n] = Len(Value) + 1]
    /\ Right' = Append(Right, Nil)
    /\ Returned("InsertLeft", n, << >>, Len(Value) + 1)

\* InsertRight reusing the left child of n as its right child
InsertRightShared(n, value) ==
    /\ Idle
    /\ Alloc(value)
    /\ Left' = Append(Left, Nil)
    /\ Right' = [Append(Right, Nil) EXCEPT
                    ![n] = IF Left[n] # Nil THEN Left[n] ELSE Len(Value) + 1]
    /\ Returned("InsertRight", n, << >>, Len(Value) + 1)

InsertRight(n, value) ==
    /\ Idle
    /\ Alloc(value)
    /\ Left' = Append(Left, Nil)
    /\ Right' = [Append(Right, Nil) EXCEPT ![n] = Len(Value) + 1]
    /\ Returned("InsertRight", n, << >>, Len(Value) + 1)

RECURSIVE SumLen(_, _)
SumLen(s, i) == IF i > Len(s) THEN 0 ELSE Len(s[i]) + SumLen(s, i + 1)

AddSkipNodeFunc(n, h) ==
    /\ Idle
    /\ skipNodeFuncs' = [skipNodeFuncs EXCEPT ![n] = Append(@, h)]
    /\ Returned("AddSkipNodeFunc", n, << >>, 0)
    /\ UNCHANGED <<Value, Left, Right, dotAttributes>>

\* the attributes held by the nodes s[i], s[i+1], ... together
RECURSIVE AttrCount(_, _)
AttrCount(s, i) ==
    IF i > Len(s) THEN 0
    ELSE Cardinality(DOMAIN s[i]) + AttrCount(s, i + 1)

AddAttribute(n, name, value) ==
    /\ Idle
    /\ dotAttributes' =
           [dotAttributes EXCEPT ![n] =
               [k \in DOMAIN @ \cup {name} |->
                   IF k = name THEN value ELSE @[k]]]
    /\ Returned("AddAttribute", n, << >>, 0)
    /\ UNCHANGED <<Value, Left, Right, skipNodeFuncs>>

\* GetDotAttributes.  "for k, v := range n.dotAttributes" takes the keys of
\* the map in an order Go leaves open: keys is one of the orders.  A string
\* is the sequence of its pieces, the names, the values, "=" and " ".
KeyOrders(m) ==
    {keys \in [1..Cardinality(DOMAIN m) -> DOMAIN m] :
        \A i, j \in DOMAIN keys : i # j => keys[i] # keys[j]}
RECURSIVE TrimRight(_, _)
TrimRight(str, cutset) ==
    IF str # << >> /\ str[Len(str)] = cutset
    THEN TrimRight(SubSeq(str, 1, Len(str) - 1), cutset)
    ELSE str
RECURSIVE rangeAttrs(_, _, _, _)
rangeAttrs(m, keys, i, attrs) ==
    IF i > Len(keys) THEN attrs
    ELSE rangeAttrs(m, keys, i + 1, attrs \o <<keys[i], "=", m[keys[i]], " ">>)

GetDotAttributes(n, keys) ==
    TrimRight(rangeAttrs(dotAttributes[n], keys, 1, << >>), " ")

CallGetDotAttributes(n) ==
    /\ Idle
    /\ \E keys \in KeyOrders(dotAttributes[n]) :
          Returned("GetDotAttributes", n, << >>, GetDotAttributes(n, keys))
    /\ UNCHANGED <<Value, Left, Right, skipNodeFuncs, dotAttributes>>

\* Walked keeping the state of the walk, its stack and result included
WalkedKeepState(name, n, st) ==
    /\ Idle
    /\ op' = name
    /\ recv' = n
    /\ trace' = st.trace
    /\ ret' = st.ret
    /\ run' = [run EXCEPT !.st = st]
    /\ UNCHANGED dequeVars
    /\ UNCHANGED <<Value, Left, Right, skipNodeFuncs, dotAttributes>>

Walked(name, n, st) ==
    /\ Idle
    /\ Returned(name, n, st.trace, st.ret)
    /\ UNCHANGED <<Value, Left, Right, skipNodeFuncs, dotAttributes>>

CallWalkInOrder(n, wf) == Walked("WalkInOrder", n, WalkInOrder(n, wf))
CallWalkPreOrder(n, wf) == Walked("WalkPreOrder", n, WalkPreOrder(n, wf))
CallWalkPostOrder(n, wf) == Walked("WalkPostOrder", n, WalkPostOrder(n, wf))
CallWalkLevelOrder(n, wf) == Walked("WalkLevelOrder", n, WalkLevelOrder(n, wf))

CallSize(n) ==
    /\ Idle
    /\ Returned("Size", n, << >>, Size(n))
    /\ UNCHANGED <<Value, Left, Right, skipNodeFuncs, dotAttributes>>

CallHeight(n) ==
    /\ Idle
    /\ Returned("Height", n, << >>, Height(n))
    /\ UNCHANGED <<Value, Left, Right, skipNodeFuncs, dotAttributes>>

Checked(name, n, b) ==
    /\ Idle
    /\ Returned(name, n, << >>, b)
    /\ UNCHANGED <<Value, Left, Right, skipNodeFuncs, dotAttributes>>

CallIsLeaf(n) == Checked("IsLeaf", n, IsLeaf(n))
CallIsFull(n) == Checked("IsFull", n, IsFull(n))
CallIsDegenerate(n) == Checked("IsDegenerate", n, IsDegenerate(n))
CallIsBalanced(n) == Checked("IsBalanced", n, IsBalanced(n))
CallIsCompleteTree(n) == Checked("IsCompleteTree", n, IsCompleteTree(n))
CallIsPerfectTree(n) == Checked("IsPerfectTree", n, IsPerfectTree(n))

CallFindNode(n, p) ==
    /\ Idle
    /\ LET st == FindNode(n, p)
       IN Returned("FindNode", n, st.trace, <<st.node, st.ok>>)
    /\ UNCHANGED <<Value, Left, Right, skipNodeFuncs, dotAttributes>>

CallIsBinarySearchTree(n, c) ==
    /\ Idle
    /\ LET st == IsBinarySearchTree(n, c)
       IN Returned("IsBinarySearchTree", n, st.trace, st.ret)
    /\ UNCHANGED <<Value, Left, Right, skipNodeFuncs, dotAttributes>>

CallWriteDot(n, w) ==
    /\ Idle
    /\ LET r == WriteDot(n, w)
       IN Returned("WriteDot", n, r.trace, [err |-> r.err, out |-> r.out])
    /\ UNCHANGED <<Value, Left, Right, skipNodeFuncs, dotAttributes>>

---------------------------------------------------------------------------
\* A call followed iteration by iteration.  run holds the function, its
\* receiver n, its argument (the WalkFunc or the FindFunc), the state st of
\* its loop and what the run has done to its worklists so far: entered, the
\* nodes pushed, each with the worklist it was pushed on, in order; iters,
\* the loop iterations executed; popped, the PopFront calls that returned
\* an item.

RunFuncs == {"WalkInOrder", "WalkPreOrder", "WalkPostOrder", "WalkLevelOrder",
             "Size", "Height", "FindNode", "IsFull", "IsDegenerate",
             "IsBalanced"}
WalkNames == {"WalkInOrder", "WalkPreOrder", "WalkPostOrder",
              "WalkLevelOrder", "Size"}
NoRun == [fn |-> "none", n |-> Nil, arg |-> 0, st |-> [pc |-> "done"],
          entered |-> << >>, iters |-> 0, popped |-> 0]

\* the arguments the caller passes: nothing, a WalkFunc that returns nil or
\* one that fails at its second call, a FindFunc that matches nothing or
\* the value 2
RunArgs(fn) ==
    IF fn \in WalkNames \ {"Size"}
    THEN {countFunc, [failAt |-> 2, err |-> "errA"]}
    ELSE IF fn = "FindNode" THEN {{}, {2}}
    ELSE {0}

\* the state of the function at its first loop test
RunState(fn, n) ==
    CASE fn \in {"WalkInOrder", "Size"} -> WalkState(n, New)
      [] fn \in {"WalkPreOrder", "WalkPostOrder"} ->
            WalkState(Nil, PushFront(New, n))
      [] fn = "WalkLevelOrder" -> WalkState(Nil, PushBack(New, n))
      [] fn = "Height" -> HeightState(n)
      [] fn = "FindNode" -> FindState(PushFront(New, n))
      [] fn \in {"IsFull", "IsDegenerate"} -> CheckState(PushFront(New, n))
      [] fn = "IsBalanced" ->
            IF Left[n] = Nil /\ Right[n] = Nil
            THEN ReturnBool(CheckState(New), TRUE)
            ELSE CheckState(PushFront(New, n))

\* one loop test of the function and, when it holds, one iteration
RunIter(fn, n, arg, st) ==
    CASE fn = "WalkInOrder" -> InOrderIter(n, arg, st)
      [] fn = "Size" -> InOrderIter(n, countFunc, st)
      [] fn = "WalkPreOrder" -> PreOrderIter(n, arg, st)
      [] fn = "WalkPostOrder" -> PostOrderIter(n, arg, st)
      [] fn = "WalkLevelOrder" -> LevelOrderIter(n, arg, st)
      [] fn = "Height" -> HeightIter(st)
      [] fn = "FindNode" -> FindNodeIter(arg, st)
      [] fn = "IsFull" -> IsFullIter(st)
      [] fn = "IsDegenerate" -> IsDegenerateIter(st)
      [] fn = "IsBalanced" -> IsBalancedIter(st)

\* the nodes on the stack (the queue of WalkLevelOrder), front first
StackNodes(fn, st) ==
    IF fn = "Height"
    THEN [i \in 1..Len(st.stack) |-> st.stack[i].node]
    ELSE st.stack
OnStack(s) == [i \in 1..Len(s) |-> <<"stack", s[i]>>]
OnResult(s) == [i \in 1..Len(s) |-> <<"result", s[i]>>]

\* the loop test of the function in state st
LoopTest(fn, st) ==
    CASE fn \in {"WalkInOrder", "Size"} ->
            st.node # Nil \/ ~IsEmpty(st.stack)
      [] fn = "WalkPostOrder" /\ st.pc = "drain" -> ~IsEmpty(st.result)
      [] OTHER -> ~IsEmpty(st.stack)

\* the PopFront calls of the iteration from st that return an item: the
\* one of WalkInOrder is made when the stack holds an item after the
\* descent, the one of the other loops always
Popped(fn, n, st) ==
    IF ~LoopTest(fn, st) THEN 0
    ELSE IF fn \in {"WalkInOrder", "Size"}
    THEN IF IsEmpty(inOrderDescend(n, st).stack) THEN 0 ELSE 1
    ELSE IF fn = "WalkPostOrder" /\ st.pc = "drain"
    THEN IF PopFront(st.result).err = NoErr THEN 1 ELSE 0
    ELSE IF PopFront(st.stack).err = NoErr THEN 1 ELSE 0

\* the pushes of the iteration from st to st2, in order: those of the
\* descent of WalkInOrder; else the items of st2.stack that are not the
\* rest of st.stack, at the back for the queue of WalkLevelOrder and at the
\* front for a stack, and for WalkPostOrder the new front of result.  An
\* iteration that returns pushes nothing.
Pushed(fn, n, st, st2) ==
    IF fn \in {"WalkInOrder", "Size"}
    THEN LET d == inOrderDescend(n, st)
         IN OnStack(SubSeq(d.stack, 1, Len(d.stack) - Len(st.stack)))
    ELSE IF st2.pc = "done" \/ ~LoopTest(fn, st) \/ st.pc = "drain"
    THEN << >>
    ELSE LET s2 == StackNodes(fn, st2)
             k == Len(s2) - (Len(st.stack) - 1)
             new == IF fn = "WalkLevelOrder"
                    THEN SubSeq(s2, Len(s2) - k + 1, Len(s2))
                    ELSE SubSeq(s2, 1, k)
         IN OnStack(new)
            \o (IF fn = "WalkPostOrder"
                THEN OnResult(SubSeq(st2.result, 1,
                                     Len(st2.result) - Len(st.result)))
                ELSE << >>)

\* the caller calls n.fn(arg)
RunStart(fn, n, arg) ==
    /\ Idle
    /\ run.fn = "none"
    /\ LET st == RunState(fn, n)
       IN run' = [fn |-> fn, n |-> n, arg |-> arg, st |-> st,
                  entered |-> OnStack(StackNodes(fn, st)),
                  iters |-> 0, popped |-> 0]
    /\ UNCHANGED <<Value, Left, Right, skipNodeFuncs, dotAttributes,
                   op, recv, trace, ret>>
    /\ UNCHANGED dequeVars

\* the function tests its loop condition and runs one iteration
RunStep ==
    /\ run.fn # "none"
    /\ run.st.pc # "done"
    /\ LET st2 == RunIter(run.fn, run.n, run.arg, run.st)
       IN run' = [run EXCEPT
                     !.st = st2,
                     !.entered = @ \o Pushed(run.fn, run.n, run.st, st2),
                     !.iters = @ + (IF LoopTest(run.fn, run.st)
                                    THEN 1 ELSE 0),
                     !.popped = @ + Popped(run.fn, run.n, run.st)]
    /\ UNCHANGED <<Value, Left, Right, skipNodeFuncs, dotAttributes,
                   op, recv, trace, ret>>
    /\ UNCHANGED dequeVars

\* the function has returned
RunReturn ==
    /\ run.fn # "none"
    /\ run.st.pc = "done"
    /\ run' = NoRun
    /\ UNCHANGED <<Value, Left, Right, skipNodeFuncs, dotAttributes,
                   op, recv, trace, ret>>
    /\ UNCHANGED dequeVars

\* A WalkFunc that changes the tree it is called on: on its growAt-th call
\* it calls node.InsertRight(value), and it returns nil on every call.
GrowFuncs == [failAt : {0}, err : {NoErr}, growAt : 1..2]

\* the node the iteration from st calls walkFunc with, Nil when it calls none
VisitedBy(fn, n, arg, st) ==
    LET st2 == RunIter(fn, n, arg, st)
    IN IF Calls(st2.trace) > Calls(st.trace)
       THEN Visits(st2.trace)[Calls(st2.trace)].node
       ELSE Nil

\* the run cur after one loop test and, when it holds, one iteration
Stepped(cur) ==
    LET st2 == RunIter(cur.fn, cur.n, cur.arg, cur.st)
    IN [cur EXCEPT
           !.st = st2,
           !.entered = @ \o Pushed(cur.fn, cur.n, cur.st, st2),
           !.iters = @ + (IF LoopTest(cur.fn, cur.st) THEN 1 ELSE 0),
           !.popped = @ + Popped(cur.fn, cur.n, cur.st)]

\* One iteration of a walk whose WalkFunc may change the tree.  The
\* iteration calls walkFunc after its skip check and its reads of Left (the
\* descent of WalkInOrder) and before its reads of node.Right and node.Left
\* (WalkPreOrder, WalkLevelOrder) or of item.Right (WalkInOrder), so what it
\* reads after the call is read from the tree as walkFunc left it.
VisitStep ==
    /\ run.fn # "none"
    /\ run.st.pc # "done"
    /\ \E cur \in {run} :
          LET node == VisitedBy(cur.fn, cur.n, cur.arg, cur.st)
              grows == /\ node # Nil
                       /\ "growAt" \in DOMAIN cur.arg
                       /\ Calls(cur.st.trace) + 1 = cur.arg.growAt
          IN /\ IF grows
                THEN \E value \in FreshValues :
                        /\ Alloc(value)
                        /\ Left' = Append(Left, Nil)
                        /\ Right' = [Append(Right, Nil) EXCEPT
                                        ![node] = Len(Value) + 1]
                ELSE UNCHANGED <<Value, Left, Right, skipNodeFuncs,
                                 dotAttributes>>
             /\ run' = Stepped(cur)'
    /\ UNCHANGED <<op, recv, trace, ret>>
    /\ UNCHANGED dequeVars

\* the caller is done with the result of its last call
Discard ==
    /\ ~Idle
    /\ Returned("none", Nil, << >>, 0)
    /\ UNCHANGED <<Value, Left, Right, skipNodeFuncs, dotAttributes>>

Init ==
    /\ Value = << >>
    /\ Left = << >>
    /\ Right = << >>
    /\ skipNodeFuncs = << >>
    /\ dotAttributes = << >>
    /\ op = "none"
    /\ recv = Nil
    /\ trace = << >>
    /\ ret = 0
    /\ deque = [items |-> New, w |-> 0, r |-> {}]
    /\ proc = [g \in Goroutines |-> NoCall]
    /\ pushes = 0
    /\ pops = 0
    /\ run = NoRun

Build ==
    \/ \E v \in FreshValues : NewNode(v)
    \/ \E n \in Nodes, v \in FreshValues : InsertLeft(n, v)
    \/ \E n \in Nodes, v \in FreshValues : InsertRight(n, v)

Query ==
    \/ \E n \in Nodes, wf \in WalkFuncs : CallWalkInOrder(n, wf)
    \/ \E n \in Nodes, wf \in WalkFuncs : CallWalkPreOrder(n, wf)
    \/ \E n \in Nodes, wf \in WalkFuncs : CallWalkPostOrder(n, wf)
    \/ \E n \in Nodes, wf \in WalkFuncs : CallWalkLevelOrder(n, wf)
    \/ \E n \in Nodes : CallSize(n)
    \/ \E n \in Nodes : CallHeight(n)

\* a caller that registers no skip handlers
Next ==
    \/ Len(Value) < MaxNodes /\ Build
    \/ Query
    \/ Discard
Spec == Init /\ [][Next]_vars

\* a caller that also registers skip handlers
NextSkip ==
    \/ Build /\ Len(Value) < MaxSkipNodes
    \/ /\ SumLen(skipNodeFuncs, 1) < MaxSkipFuncs
       /\ \E n \in Nodes, h \in Handlers : AddSkipNodeFunc(n, h)
    \/ Query
    \/ Discard
SpecSkip == Init /\ [][NextSkip]_vars

\* a caller that only builds: nodes, skip handlers (the one of
\* TestSkipNodeHandlers, "n.Value == 2") and attributes
NextNode ==
    \/ Build /\ Len(Value) < MaxSkipNodes
    \/ /\ SumLen(skipNodeFuncs, 1) < MaxSkipFuncs
       /\ \E n \in Nodes, h \in {2} : AddSkipNodeFunc(n, h)
    \/ \E n \in Nodes, name \in AttrNames, value \in AttrValues :
          /\ \/ AttrCount(dotAttributes, 1) < MaxAttrs
             \/ name \in DOMAIN dotAttributes[n]
          /\ AddAttribute(n, name, value)
    \/ Discard
SpecNode == Init /\ [][NextNode]_vars

\* a caller that searches the trees it builds
NextFind ==
    \/ Len(Value) < MaxNodes /\ Build
    \/ \E n \in Nodes, p \in FindFuncs : CallFindNode(n, p)
    \/ Discard
SpecFind == Init /\ [][NextFind]_vars

\* a caller that registers several skip handlers on its first node, as
\* TestSkipNodeHandlers does on its root, and walks with a visitor that
\* returns nil
NextOrder ==
    \/ Len(Value) < MaxOrderNodes /\ Build
    \/ /\ Len(skipNodeFuncs) > 0
       /\ SumLen(skipNodeFuncs, 1) < MaxOrderFuncs
       /\ \E h \in Handlers : AddSkipNodeFunc(1, h)
    \/ \E n \in Nodes : CallWalkInOrder(n, countFunc)
    \/ \E n \in Nodes : CallWalkPreOrder(n, countFunc)
    \/ \E n \in Nodes : CallWalkPostOrder(n, countFunc)
    \/ \E n \in Nodes : CallWalkLevelOrder(n, countFunc)
    \/ Discard
SpecOrder == Init /\ [][NextOrder]_vars

\* a caller that builds trees of any values and checks them for a BST
BuildBst ==
    \/ \E v \in BstValues : NewNode(v)
    \/ \E n \in Nodes, v \in BstValues : InsertLeft(n, v)
    \/ \E n \in Nodes, v \in BstValues : InsertRight(n, v)
NextBst ==
    \/ Len(Value) < MaxBstNodes /\ BuildBst
    \/ \E n \in Nodes, c \in Comparators : CallIsBinarySearchTree(n, c)
    \/ Discard
SpecBst == Init /\ [][NextBst]_vars

\* a caller that classifies the trees it builds
Classify ==
    \/ \E n \in Nodes : CallIsLeaf(n)
    \/ \E n \in Nodes : CallIsFull(n)
    \/ \E n \in Nodes : CallIsDegenerate(n)
    \/ \E n \in Nodes : CallIsBalanced(n)
    \/ \E n \in Nodes : CallIsCompleteTree(n)
    \/ \E n \in Nodes : CallIsPerfectTree(n)
NextShape ==
    \/ Len(Value) < MaxShapeNodes /\ Build
    \/ Classify
    \/ Discard
SpecShape == Init /\ [][NextShape]_vars

\* a caller that writes the Dot representation of the trees it builds,
\* to a writer that may fail
NextDot ==
    \/ Len(Value) < MaxDotNodes /\ Build
    \/ /\ SumLen(skipNodeFuncs, 1) < MaxSkipFuncs
       /\ \E n \in Nodes, h \in {2} : AddSkipNodeFunc(n, h)
    \/ \E n \in Nodes, w \in Writers : CallWriteDot(n, w)
    \/ Discard
SpecDot == Init /\ [][NextDot]_vars

\* a caller that follows the loops of the calls it makes on the trees it
\* builds, with the skip handler "n.Value == 2" on its first node; the
\* program goes on while a call is in progress
NextRun ==
    \/ run.fn = "none" /\ Len(Value) < MaxRunNodes /\ Build
    \/ /\ run.fn = "none"
       /\ Len(skipNodeFuncs) > 0
       /\ SumLen(skipNodeFuncs, 1) < MaxSkipFuncs
       /\ \E h \in {2} : AddSkipNodeFunc(1, h)
    \/ \E fn \in RunFuncs, n \in Nodes :
          \E arg \in RunArgs(fn) : RunStart(fn, n, arg)
    \/ RunStep
    \/ RunReturn
    \/ run.fn = "none" /\ Discard
SpecRun == Init /\ [][NextRun]_vars /\ WF_vars(RunStep)

\* a caller that registers the skip handler of TestSkipNodeHandlers on any
\* of its nodes and the attribute of TestNodeAttributes on its first node,
\* and makes every walk and query
NextFrame ==
    \/ Len(Value) < MaxFrameNodes /\ Build
    \/ /\ SumLen(skipNodeFuncs, 1) < MaxSkipFuncs
       /\ \E n \in Nodes, h \in {2} : AddSkipNodeFunc(n, h)
    \/ /\ Len(dotAttributes) > 0
       /\ dotAttributes[1] = EmptyMap
       /\ AddAttribute(1, "color", "green")
    \/ \E n \in Nodes, wf \in RunArgs("WalkInOrder") : CallWalkInOrder(n, wf)
    \/ \E n \in Nodes, wf \in RunArgs("WalkPreOrder") :
          CallWalkPreOrder(n, wf)
    \/ \E n \in Nodes, wf \in RunArgs("WalkPostOrder") :
          CallWalkPostOrder(n, wf)
    \/ \E n \in Nodes, wf \in RunArgs("WalkLevelOrder") :
          CallWalkLevelOrder(n, wf)
    \/ \E n \in Nodes : CallSize(n)
    \/ \E n \in Nodes : CallHeight(n)
    \/ \E n \in Nodes : CallIsLeaf(n)
    \/ \E n \in Nodes : CallIsFull(n)
    \/ \E n \in Nodes : CallIsDegenerate(n)
    \/ \E n \in Nodes : CallIsBalanced(n)
    \/ \E n \in Nodes, p \in RunArgs("FindNode") : CallFindNode(n, p)
    \/ Discard
SpecFrame == Init /\ [][NextFrame]_vars

\* a caller whose visitor may change the tree during the walk
NextVisit ==
    \/ run.fn = "none" /\ Len(Value) < MaxVisitNodes /\ Build
    \/ /\ run.fn = "none"
       /\ Len(skipNodeFuncs) > 0
       /\ SumLen(skipNodeFuncs, 1) < MaxSkipFuncs
       /\ \E h \in {2} : AddSkipNodeFunc(1, h)
    \/ /\ Len(Value) <= MaxVisitNodes
       /\ \E fn \in WalkNames \ {"Size"}, n \in Nodes :
             \E arg \in GrowFuncs \cup RunArgs(fn) : RunStart(fn, n, arg)
    \/ VisitStep
    \/ RunReturn
    \/ run.fn = "none" /\ Discard
SpecVisit == Init /\ [][NextVisit]_vars

\* a caller that gives its nodes attributes as TestNodeAttributes does, each
\* name once and "color" before "fillcolor" before "shape", and reads them
AttrOrder == <<"color", "fillcolor", "shape">>
NextAttr ==
    \/ Len(Value) < MaxAttrNodes /\ \E v \in FreshValues : NewNode(v)
    \/ \E n \in Nodes, i \in 1..Len(AttrOrder), value \in AttrValues :
          /\ DOMAIN dotAttributes[n] = {AttrOrder[j] : j \in 1..(i - 1)}
          /\ AddAttribute(n, AttrOrder[i], value)
    \/ \E n \in Nodes : CallGetDotAttributes(n)
    \/ Discard
SpecAttr == Init /\ [][NextAttr]_vars

\* one goroutine that uses a Deque
NextDeque ==
    \/ GoCall({1})
    \/ GoStep({1})
SpecDeque == Init /\ [][NextDeque]_vars

\* goroutines that share a Deque
NextRace ==
    \/ GoCall(Goroutines)
    \/ GoStep(Goroutines)
SpecRace == Init /\ [][NextRace]_vars

\* the same goroutines under a fair scheduler and a sync.RWMutex that lets
\* no waiting goroutine starve: a goroutine whose next step is possible
\* again and again takes it
SpecFair ==
    /\ Init
    /\ [][NextRace]_vars
    /\ \A g \in Goroutines : SF_vars(GoStep({g}))

---------------------------------------------------------------------------
\* What the claims are stated in: the textbook (recursive) definitions over
\* the child links, and what the caller observed of its last call.

RECURSIVE inorder(_)
inorder(n) ==
    IF n = Nil THEN << >> ELSE inorder(Left[n]) \o <<n>> \o inorder(Right[n])

RECURSIVE preorder(_)
preorder(n) ==
    IF n = Nil THEN << >> ELSE <<n>> \o preorder(Left[n]) \o preorder(Right[n])

RECURSIVE postorder(_)
postorder(n) ==
    IF n = Nil THEN << >>
    ELSE postorder(Left[n]) \o postorder(Right[n]) \o <<n>>

\* the nodes reachable from n by child links
RECURSIVE Subtree(_)
Subtree(n) ==
    IF n = Nil THEN {} ELSE {n} \cup Subtree(Left[n]) \cup Subtree(Right[n])

\* the number of edges from n down to its descendant x
RECURSIVE Depth(_, _)
Depth(n, x) ==
    IF n = x THEN 0
    ELSE IF x \in Subtree(Left[n]) THEN 1 + Depth(Left[n], x)
    ELSE 1 + Depth(Right[n], x)

\* x is strictly to the left of y, both at one depth below n
RECURSIVE LeftOf(_, _, _)
LeftOf(n, x, y) ==
    /\ x # y
    /\ n # x
    /\ \/ x \in Subtree(Left[n]) /\ y \in Subtree(Right[n])
       \/ x \in Subtree(Left[n]) /\ y \in Subtree(Left[n])
            /\ LeftOf(Left[n], x, y)
       \/ x \in Subtree(Right[n]) /\ y \in Subtree(Right[n])
            /\ LeftOf(Right[n], x, y)

Max(a, b) == IF a > b THEN a ELSE b

\* the longest downward path from n, in edges (-1 for an absent node)
RECURSIVE longestPath(_)
longestPath(n) ==
    IF n = Nil THEN -1
    ELSE 1 + Max(longestPath(Left[n]), longestPath(Right[n]))

WalkOps == {"WalkInOrder", "WalkPreOrder", "WalkPostOrder", "WalkLevelOrder"}

\* the nodes the WalkFunc was called with, in order
Visited == [i \in 1..Calls(trace) |-> Visits(trace)[i].node]
VisitedSet == {Visited[i] : i \in 1..Len(Visited)}
IsPrefix(s, t) == Len(s) <= Len(t) /\ s = SubSeq(t, 1, Len(s))
NoSkipFuncs(n) == skipNodeFuncs[n] = << >>

\* the tree 1(left=2(left=4,right=5), right=3) of the tests
ExampleTree ==
    /\ Left = <<2, 4, 0, 0, 0>>
    /\ Right = <<3, 5, 0, 0, 0>>
    /\ Value = <<1, 2, 3, 4, 5>>

\* the tree 1(left=2(left=4), right=3)
SmallTree ==
    /\ Left = <<2, 4, 0, 0>>
    /\ Right = <<3, 0, 0, 0>>
    /\ Value = <<1, 2, 3, 4>>

---------------------------------------------------------------------------
\* C1: with no skip handlers on its receiver, WalkInOrder calls the visitor
\* on the nodes of inorder(left) ++ [node] ++ inorder(right), in that order:
\* on all of them when it returns nil, on a prefix when the visitor failed.
C1_InOrder ==
    (op = "WalkInOrder" /\ NoSkipFuncs(recv)) =>
        /\ IsPrefix(Visited, inorder(recv))
        /\ ret = NoErr => Visited = inorder(recv)

C1_Witness ==
    /\ op = "WalkInOrder" /\ recv = 1 /\ ret = NoErr
    /\ ExampleTree
    /\ Visited = <<4, 2, 5, 1, 3>>

\* C2: with no skip handlers on its receiver, WalkPreOrder calls the visitor
\* on [node] ++ preorder(left) ++ preorder(right): every node before its
\* descendants, the whole left subtree before the right one.
C2_PreOrder ==
    (op = "WalkPreOrder" /\ NoSkipFuncs(recv)) =>
        /\ IsPrefix(Visited, preorder(recv))
        /\ ret = NoErr =>
            /\ Visited = preorder(recv)
            /\ \A i, j \in 1..Len(Visited) :
                 /\ (Visited[j] \in Subtree(Visited[i]) /\ i # j) => i < j
                 /\ \A m \in Subtree(recv) :
                      ( /\ Visited[i] \in Subtree(Left[m])
                        /\ Visited[j] \in Subtree(Right[m]) ) => i < j

C2_Witness ==
    /\ op = "WalkPreOrder" /\ recv = 1 /\ ret = NoErr
    /\ ExampleTree
    /\ Visited = <<1, 2, 4, 5, 3>>

\* C3: with no skip handlers on its receiver, WalkPostOrder calls the
\* visitor on postorder(left) ++ postorder(right) ++ [node]: every node
\* after its descendants, the receiver last.
C3_PostOrder ==
    (op = "WalkPostOrder" /\ NoSkipFuncs(recv)) =>
        /\ IsPrefix(Visited, postorder(recv))
        /\ ret = NoErr =>
            /\ Visited = postorder(recv)
            /\ Visited[Len(Visited)] = recv
            /\ \A i, j \in 1..Len(Visited) :
                 (Visited[j] \in Subtree(Visited[i]) /\ i # j) => j < i

C3_Witness ==
    /\ op = "WalkPostOrder" /\ recv = 1 /\ ret = NoErr
    /\ ExampleTree
    /\ Visited = <<4, 5, 2, 3, 1>>

\* C4: with no skip handlers on its receiver, WalkLevelOrder visits the
\* nodes in non-decreasing depth and, within one depth, left to right: a
\* left child before its right sibling, the children of an earlier-visited
\* parent before those of a later-visited one.
C4_LevelOrder ==
    (op = "WalkLevelOrder" /\ NoSkipFuncs(recv)) =>
        /\ VisitedSet \subseteq Subtree(recv)
        /\ ret = NoErr => VisitedSet = Subtree(recv)
        /\ \A i, j \in 1..Len(Visited) :
             i < j =>
               /\ Visited[i] # Visited[j]
               /\ Depth(recv, Visited[i]) <= Depth(recv, Visited[j])
               /\ Depth(recv, Visited[i]) = Depth(recv, Visited[j])
                    => LeftOf(recv, Visited[i], Visited[j])
        /\ \A i \in 1..Len(Visited), j \in 1..Len(Visited) :
             ( /\ Left[Visited[i]] # Nil
               /\ Visited[j] = Right[Visited[i]] ) =>
                 \E k \in 1..(j - 1) : Visited[k] = Left[Visited[i]]

C4_Witness ==
    /\ op = "WalkLevelOrder" /\ recv = 1 /\ ret = NoErr
    /\ ExampleTree
    /\ Visited = <<1, 2, 3, 4, 5>>

\* C5: with no skip handlers on the receiver, each of the four walks, when
\* it returns nil, has visited every node reachable from the receiver
\* exactly once: the four visit sequences are permutations of one node set.
C5_Permutation ==
    (op \in WalkOps /\ NoSkipFuncs(recv) /\ ret = NoErr) =>
        /\ VisitedSet = Subtree(recv)
        /\ Len(Visited) = Cardinality(Subtree(recv))
        /\ \A i, j \in 1..Len(Visited) : Visited[i] = Visited[j] => i = j

C5_Witness ==
    /\ op = "WalkPostOrder" /\ recv = 2 /\ ret = NoErr
    /\ ExampleTree
    /\ VisitedSet = {2, 4, 5}
    /\ Len(Visited) = 3

\* some handler registered on n returns true for x
Skips(n, x) ==
    \E i \in 1..Len(skipNodeFuncs[n]) : handler(skipNodeFuncs[n][i], x)

\* the nodes below n none of whose ancestors-or-self up to n is skipped by
\* the handlers of n
Kept(n) ==
    {x \in Subtree(n) :
        \A y \in Subtree(n) : x \in Subtree(y) => ~Skips(n, y)}

\* C6: in each of the four walks, a node X for which a handler of the
\* receiver returns true is never visited and neither is a descendant of X;
\* every other node below the receiver with no skipped ancestor is visited.
C6_SkipSubtree ==
    op \in WalkOps =>
        /\ \A x \in Subtree(recv) :
              Skips(recv, x) => VisitedSet \cap Subtree(x) = {}
        /\ VisitedSet \subseteq Kept(recv)
        /\ ret = NoErr => VisitedSet = Kept(recv)

C6_Witness ==
    /\ op = "WalkInOrder" /\ recv = 1 /\ ret = NoErr
    /\ SmallTree
    /\ skipNodeFuncs = << <<2>>, << >>, << >>, << >> >>
    /\ Visited = <<1, 3>>

\* C7: in each of the four walks, when the visitor returns an error on its
\* k-th call the walk returns that error and the visitor was called k times;
\* when the visitor never returns an error the walk returns nil.
C7_VisitorError ==
    op \in WalkOps =>
        LET v == Visits(trace)
        IN /\ \A k \in 1..Len(v) :
                v[k].out # NoErr => (ret = v[k].out /\ Len(v) = k)
           /\ (\A k \in 1..Len(v) : v[k].out = NoErr) => ret = NoErr

C7_Witness ==
    /\ op = "WalkLevelOrder" /\ recv = 1 /\ ret = "errB"
    /\ SmallTree
    /\ Visited = <<1, 2>>
    /\ Visits(trace)[2].out = "errB"

\* C8: with no skip handlers on the receiver, Size() is the number of nodes
\* reachable from the receiver and the number of visitor calls each of the
\* four walks makes from the same receiver.
C8_Size ==
    /\ (op = "Size" /\ NoSkipFuncs(recv)) =>
          /\ ret = Cardinality(Subtree(recv))
          /\ ret = Calls(WalkInOrder(recv, countFunc).trace)
          /\ ret = Calls(WalkPreOrder(recv, countFunc).trace)
          /\ ret = Calls(WalkPostOrder(recv, countFunc).trace)
          /\ ret = Calls(WalkLevelOrder(recv, countFunc).trace)
    /\ (op \in WalkOps /\ NoSkipFuncs(recv) /\ ret = NoErr) =>
          Calls(trace) = Size(recv)

C8_Witness ==
    /\ op = "Size" /\ recv = 1 /\ ret = 5
    /\ ExampleTree

\* Size of a child position: 0 when the child is absent
SizeOrZero(c) == IF c = Nil THEN 0 ELSE Size(c)

\* C9 as stated: in every state reached by NewNode, InsertLeft, InsertRight
\* and AddSkipNodeFunc, n.Size() = 1 + Left.Size() + Right.Size() for every
\* node n (an absent child counting 0).
C9_Original ==
    \A n \in Nodes : Size(n) = 1 + SizeOrZero(Left[n]) + SizeOrZero(Right[n])

\* C9 as amended: the equation holds for every node n such that no skip
\* handler is registered on n or on a child of n.
C9_SizeEquation ==
    \A n \in Nodes :
        ( /\ NoSkipFuncs(n)
          /\ Left[n] # Nil => NoSkipFuncs(Left[n])
          /\ Right[n] # Nil => NoSkipFuncs(Right[n]) ) =>
            Size(n) = 1 + SizeOrZero(Left[n]) + SizeOrZero(Right[n])

C9_Witness ==
    /\ op = "Size" /\ recv = 1 /\ ret = 4
    /\ SmallTree
    /\ skipNodeFuncs = << << >>, << >>, << >>, <<4>> >>

\* Height of a child position: -1 when the child is absent
HeightOrMinusOne(c) == IF c = Nil THEN -1 ELSE Height(c)

\* C10: Height() of a leaf is 0; of any other node it is 1 + the larger of
\* the heights of its children, an absent child counting -1; it is the
\* number of edges of the longest downward path from the node.
C10_Height ==
    /\ \A n \in Nodes :
          /\ (Left[n] = Nil /\ Right[n] = Nil) => Height(n) = 0
          /\ Height(n) = 1 + Max(HeightOrMinusOne(Left[n]),
                                 HeightOrMinusOne(Right[n]))
          /\ Height(n) = longestPath(n)
    /\ op = "Height" => ret = longestPath(recv)

C10_Witness ==
    /\ op = "Height" /\ recv = 2 /\ ret = 1
    /\ ExampleTree
    /\ Height(1) = 2 /\ Height(5) = 0

---------------------------------------------------------------------------
\* the fields of node m are the same before and after the step
SameNode(m) ==
    /\ Value'[m] = Value[m]
    /\ Left'[m] = Left[m]
    /\ Right'[m] = Right[m]
    /\ skipNodeFuncs'[m] = skipNodeFuncs[m]
    /\ dotAttributes'[m] = dotAttributes[m]

\* the nodes reachable from n by the child links L, R
RECURSIVE Reach(_, _, _)
Reach(L, R, n) ==
    IF n = Nil THEN {} ELSE {n} \cup Reach(L, R, L[n]) \cup Reach(L, R, R[n])

\* what a step that is a call n.InsertLeft(v) or n.InsertRight(v) does
InsertEffect ==
    LET n == recv'
        new == ret'
        left == op' = "InsertLeft"
        old == IF left THEN Left[n] ELSE Right[n]
    IN /\ n \in Nodes
       /\ new \notin Nodes
       /\ Nodes' = Nodes \cup {new}
       /\ Value'[new] \in FreshValues
       /\ Left'[new] = Nil /\ Right'[new] = Nil
       /\ skipNodeFuncs'[new] = << >>
       /\ DOMAIN dotAttributes'[new] = {}
       /\ IF left
          THEN Left'[n] = new /\ Right'[n] = Right[n]
          ELSE Right'[n] = new /\ Left'[n] = Left[n]
       /\ Reach(Left, Right, old) \cap Reach(Left', Right', n) = {}
       /\ Value'[n] = Value[n]
       /\ skipNodeFuncs'[n] = skipNodeFuncs[n]
       /\ dotAttributes'[n] = dotAttributes[n]
       /\ \A m \in Nodes \ {n} : SameNode(m)

\* C11: n.InsertLeft(v) (n.InsertRight(v)) allocates a fresh leaf carrying v,
\* with no children, skip handlers or attributes, makes it the left (right)
\* child of n and returns it; the previous child at that position and its
\* subtree are no longer reachable from n; the value, the other child, the
\* skip handlers and the attributes of n, and every other node, are unchanged.
C11_Insert ==
    [][op' \in {"InsertLeft", "InsertRight"} => InsertEffect]_vars

\* InsertLeft has replaced the left child 2 of node 1, which has a skip
\* handler and an attribute; 2 keeps its own child 3
C11_Witness ==
    /\ op = "InsertLeft" /\ recv = 1 /\ ret = 4
    /\ Left = <<4, 3, 0, 0>> /\ Right = <<0, 0, 0, 0>>
    /\ skipNodeFuncs[1] # << >>
    /\ DOMAIN dotAttributes[1] # {}

\* the children of n
Children(n) == {Left[n], Right[n]} \ {Nil}

\* C12: whatever NewNode, InsertLeft and InsertRight calls were made, the
\* nodes form a forest of proper trees: no node is the child of two parents
\* or both the left and the right child of one parent, and no node is
\* reachable from itself by child links (every non-empty set of nodes has a
\* member with no child in the set).
C12_Forest ==
    /\ \A n \in Nodes : Children(n) \subseteq Nodes
    /\ \A n \in Nodes : Left[n] # Nil => Left[n] # Right[n]
    /\ \A n, m \in Nodes : n # m => Children(n) \cap Children(m) = {}
    /\ \A S \in SUBSET Nodes : S # {} => \E n \in S : Children(n) \cap S = {}

\* InsertRight has replaced the right child 3 of node 1; 1 keeps its left
\* subtree 2(4)
C12_Witness ==
    /\ op = "InsertRight" /\ recv = 1 /\ ret = 5
    /\ Left = <<2, 4, 0, 0, 0>> /\ Right = <<5, 0, 0, 0, 0>>

---------------------------------------------------------------------------
\* The shape of the tree under n: E for an absent child, T(l, r) for a node
\* with the shapes l and r under it, L for a leaf.
E == << >>
T(l, r) == <<l, r>>
L == T(E, E)
RECURSIVE Shape(_)
Shape(n) == IF n = Nil THEN E ELSE T(Shape(Left[n]), Shape(Right[n]))

\* C13: IsFull returns true iff no node reachable from its receiver has
\* exactly one child; true for 1(2(4,5),3), false for 1(left=2(4,5)).
C13_IsFull ==
    op = "IsFull" =>
        /\ ret = (\A m \in Subtree(recv) : Cardinality(Children(m)) # 1)
        /\ Shape(recv) = T(T(L, L), L) => ret = TRUE
        /\ Shape(recv) = T(T(L, L), E) => ret = FALSE

\* IsFull has returned true for the tree 1(2(4,5),3)
C13_Witness ==
    /\ op = "IsFull" /\ recv = 1 /\ ret = TRUE
    /\ Shape(1) = T(T(L, L), L)

\* C14: IsDegenerate returns true iff no node reachable from its receiver
\* has two children; true for 1(left=2(right=3(left=4))), false for
\* 1(left=2(4,5)).
C14_IsDegenerate ==
    op = "IsDegenerate" =>
        /\ ret = (\A m \in Subtree(recv) : Cardinality(Children(m)) # 2)
        /\ Shape(recv) = T(T(E, T(L, E)), E) => ret = TRUE
        /\ Shape(recv) = T(T(L, L), E) => ret = FALSE

\* IsDegenerate has returned false for 1(right=2(right=3(left=4,right=5))),
\* whose only node with two children is at the end of a chain of right
\* children
C14_Witness ==
    /\ op = "IsDegenerate" /\ recv = 1 /\ ret = FALSE
    /\ Shape(1) = T(E, T(E, T(L, L)))

\* the heights of the subtrees of m differ by at most one
BalancedAt(m) ==
    LET d == longestPath(Left[m]) - longestPath(Right[m])
    IN d \in {-1, 0, 1}

\* C15: IsBalanced returns true iff, for every node reachable from its
\* receiver, the heights of its left and right subtrees (-1 for an absent
\* one) differ by at most 1; false for 1(left=2(left=3)) and
\* 1(left=2(4,5)), true for 2(4,5) and 1(left=2, right=3(4,5)).
C15_IsBalanced ==
    op = "IsBalanced" =>
        /\ ret = (\A m \in Subtree(recv) : BalancedAt(m))
        /\ Shape(recv) = T(T(L, E), E) => ret = FALSE
        /\ Shape(recv) = T(T(L, L), E) => ret = FALSE
        /\ Shape(recv) = T(L, L) => ret = TRUE
        /\ Shape(recv) = T(L, T(L, L)) => ret = TRUE

\* IsBalanced has returned false for 1(left=2(left=3(left=4)), right=5(6)):
\* the subtrees of node 1 differ by one, those of node 2 by two
C15_Witness ==
    /\ op = "IsBalanced" /\ recv = 1 /\ ret = FALSE
    /\ Shape(1) = T(T(T(L, E), E), T(L, E))
    /\ BalancedAt(1) /\ ~BalancedAt(2)

---------------------------------------------------------------------------
\* the position of x in the sequence s (0 when absent)
RECURSIVE IndexOf(_, _, _)
IndexOf(s, x, i) ==
    IF i > Len(s) THEN 0 ELSE IF s[i] = x THEN i ELSE IndexOf(s, x, i + 1)

\* the nodes the predicate of FindNode was called with
PredCalled == {trace[i].node : i \in 1..Len(trace)}

\* C16: FindNode(p) returns (node, true) with node the first node in
\* pre-order for which p is true, and (nil, false) iff p is false for every
\* node of the tree; p is never called on a node after the returned one in
\* pre-order.
C16_FindNode ==
    op = "FindNode" =>
        LET p == trace[1].h
            pre == preorder(recv)
            match == {i \in 1..Len(pre) : predicate(p, pre[i])}
            first == CHOOSE i \in match : \A j \in match : i <= j
        IN /\ ret[2] = FALSE <=> match = {}
           /\ ret[2] = FALSE => ret[1] = Nil
           /\ ret[2] = TRUE =>
                 /\ ret[1] = pre[first]
                 /\ \A m \in PredCalled :
                       IndexOf(pre, m, 1) <= IndexOf(pre, ret[1], 1)

\* FindNode has returned node 4 of the tree 1(2(4,5),3) for the predicate
\* that matches 3, 4 and 5, after calling it on 1, 2 and 4 only
C16_Witness ==
    /\ op = "FindNode" /\ recv = 1 /\ ret = <<4, TRUE>>
    /\ ExampleTree
    /\ trace[1].h = {3, 4, 5}
    /\ PredCalled = {1, 2, 4}

---------------------------------------------------------------------------
\* the tree 1(left=2(left=4,right=5), right=3) under n
IsExample(n) == Shape(n) = T(T(L, L), L)

\* what the first three classification queries return for the example tree
ExampleChecks ==
    /\ Size(recv) = 5
    /\ Height(recv) = 2
    /\ op = "IsFull" => ret = TRUE
    /\ op = "IsBalanced" => ret = TRUE
    /\ op = "IsCompleteTree" => ret = TRUE

\* C17 as stated: the tree 1(2(4,5),3) has size 5 and height 2, and it is
\* full, balanced, complete and perfect.
C17_Original ==
    (op # "none" /\ recv # Nil /\ IsExample(recv)) =>
        /\ ExampleChecks
        /\ op = "IsPerfectTree" => ret = TRUE

\* C17: the tree 1(2(4,5),3) has size 5 and height 2; it is full, balanced
\* and complete, and it is not perfect.
C17_Example ==
    (op # "none" /\ recv # Nil /\ IsExample(recv)) =>
        /\ ExampleChecks
        /\ op = "IsPerfectTree" => ret = FALSE

\* IsPerfectTree has returned false for the example tree
C17_Witness ==
    /\ op = "IsPerfectTree" /\ recv = 1 /\ ret = FALSE
    /\ ExampleTree
    /\ IsFull(1) /\ IsBalanced(1) /\ IsCompleteTree(1)

\* every internal node under n has two children and all leaves under n are
\* at the same depth
PerfectShape(n) ==
    /\ \A m \in Subtree(n) : ~IsLeaf(m) => Cardinality(Children(m)) = 2
    /\ \A a, b \in Subtree(n) :
          (IsLeaf(a) /\ IsLeaf(b)) => Depth(n, a) = Depth(n, b)

RECURSIVE Pos(_, _, _)
Pos(n, x, i) ==
    IF n = x THEN i
    ELSE IF x \in Subtree(Left[n]) THEN Pos(Left[n], x, 2 * i)
    ELSE Pos(Right[n], x, 2 * i + 1)

\* the nodes under n at depth d
Level(n, d) == {x \in Subtree(n) : Depth(n, x) = d}

\* every level under n but the last is fully populated, and the last one is
\* filled from the left without gaps
CompleteShape(n) ==
    LET h == longestPath(n)
        last == {Pos(n, x, 1) : x \in Level(n, h)}
    IN /\ \A d \in 0..(h - 1) : Cardinality(Level(n, d)) = 2 ^ d
       /\ last = (2 ^ h)..(2 ^ h + Cardinality(last) - 1)

\* C19: with no skip handlers, the complete-tree check returns true iff
\* every level but possibly the last is fully populated and the last level
\* is filled left to right without gaps; true for 1(left=2(left=4), right=3),
\* false for 1(left=2(left=3)), 1(left=2(right=4), right=3(5,6)) and
\* 1(left=2, right=3(4,5)).
C19_IsComplete ==
    op = "IsCompleteTree" =>
        /\ ret = CompleteShape(recv)
        /\ Shape(recv) = T(T(L, E), L) => ret = TRUE
        /\ Shape(recv) = T(T(L, E), E) => ret = FALSE
        /\ Shape(recv) = T(T(E, L), T(L, L)) => ret = FALSE
        /\ Shape(recv) = T(L, T(L, L)) => ret = FALSE

\* IsCompleteTree has returned false for 1(left=2(right=4), right=3(5,6)),
\* whose last level has a gap at its first position
C19_Witness ==
    /\ op = "IsCompleteTree" /\ recv = 1 /\ ret = FALSE
    /\ Shape(1) = T(T(E, L), T(L, L))

\* C20: with no skip handlers, a tree that the perfect-tree check accepts is
\* also accepted by the complete-, full- and balanced-tree checks; the
\* converse fails: some tree is complete, full and balanced and not perfect.
C20_PerfectImplies ==
    (op = "IsPerfectTree" /\ ret = TRUE) =>
        /\ IsCompleteTree(recv)
        /\ IsFull(recv)
        /\ IsBalanced(recv)

\* IsPerfectTree has returned true for the subtree 2(4,5) of the example
\* tree, which is itself complete, full and balanced and not perfect
C20_Witness ==
    /\ op = "IsPerfectTree" /\ recv = 2 /\ ret = TRUE
    /\ ExampleTree
    /\ IsCompleteTree(2) /\ IsFull(2) /\ IsBalanced(2)
    /\ IsCompleteTree(1) /\ IsFull(1) /\ IsBalanced(1)
    /\ ~IsPerfectTree(1)

---------------------------------------------------------------------------
\* the checks of the shape of a tree
ShapeOps ==
    {"IsFull", "IsDegenerate", "IsBalanced", "IsCompleteTree", "IsPerfectTree"}

\* C21: a tree of a single node (no child was ever inserted under it) is
\* full, degenerate, balanced, complete and perfect, and the node is a leaf.
C21_SingleNode ==
    (op \in ShapeOps \cup {"IsLeaf"} /\ Children(recv) = {}) => ret = TRUE

\* IsDegenerate has returned true for node 1, the only node there is
C21_Witness ==
    /\ op = "IsDegenerate" /\ recv = 1 /\ ret = TRUE
    /\ Left = <<0>> /\ Right = <<0>>

---------------------------------------------------------------------------
\* a comes strictly before b in the order named c
Before(c, a, b) == IF c = "IntComparator" THEN a < b ELSE b < a

\* the comparator IsBinarySearchTree was called with (it calls none on a
\* single node, for which the comparator makes no difference)
CmpUsed == IF trace = << >> THEN "IntComparator" ELSE trace[1].h

\* the values under n in the recursive in-order are strictly increasing
Increasing(c, n) ==
    LET seq == inorder(n)
    IN \A i \in 1..(Len(seq) - 1) : Before(c, Value[seq[i]], Value[seq[i + 1]])

\* every node under n has only smaller values to its left and only greater
\* values to its right
Ordered(c, n) ==
    \A m \in Subtree(n) :
        /\ \A x \in Subtree(Left[m]) : Before(c, Value[x], Value[m])
        /\ \A y \in Subtree(Right[m]) : Before(c, Value[m], Value[y])

\* the trees 2(1,3) and 1(left=2(left=4), right=3) under n
IsBstExample(n) ==
    /\ Shape(n) = T(L, L)
    /\ Value[n] = 2 /\ Value[Left[n]] = 1 /\ Value[Right[n]] = 3
IsNotBstExample(n) ==
    /\ Shape(n) = T(T(L, E), L)
    /\ Value[n] = 1 /\ Value[Left[n]] = 2 /\ Value[Right[n]] = 3
    /\ Value[Left[Left[n]]] = 4

---------------------------------------------------------------------------
\* the calls of skip handlers a walk made
IsHandlerCall(e) == e.ev = "handler"
HandlerCalls(tr) == SelectSeq(tr, IsHandlerCall)

\* C23: a walk consults only the skip handlers registered on the node it is
\* called on: every handler it calls is one of the receiver's, so handlers
\* registered on a descendant or on an ancestor of the receiver are never
\* called and do not change what the walk visits.
C23_OnlyReceiver ==
    op \in WalkOps =>
        LET calls == HandlerCalls(trace)
        IN /\ \A i \in 1..Len(calls) :
                 \E j \in 1..Len(skipNodeFuncs[recv]) :
                    skipNodeFuncs[recv][j] = calls[i].h
           /\ NoSkipFuncs(recv) =>
                 /\ calls = << >>
                 /\ VisitedSet \subseteq Subtree(recv)
                 /\ ret = NoErr => VisitedSet = Subtree(recv)

\* node 2 of 1(2(4),3) has a handler that matches its child 4: the walk from
\* node 1 has visited 4, and called no handler
C23_Witness ==
    /\ op = "WalkInOrder" /\ recv = 1 /\ ret = NoErr
    /\ SmallTree
    /\ skipNodeFuncs = << << >>, <<4>>, << >>, << >> >>
    /\ Visited = <<4, 2, 1, 3>>
    /\ HandlerCalls(trace) = << >>

---------------------------------------------------------------------------
\* the index of the last event of tr before k that is not a handler call
RECURSIVE SegStart(_, _)
SegStart(tr, k) ==
    IF k = 1 \/ tr[k - 1].ev # "handler" THEN k ELSE SegStart(tr, k - 1)

\* the handler calls made for the candidate whose shouldSkipNode result is
\* the event k of tr
Segment(tr, k) == SubSeq(tr, SegStart(tr, k), k - 1)

\* C24: for each candidate the handlers of the receiver are called in the
\* order AddSkipNodeFunc registered them, up to and including the first that
\* returns true; the candidate is skipped iff some handler returns true for
\* it; with no handler registered nothing is skipped.
C24_HandlerOrder ==
    op \in WalkOps =>
        LET F == skipNodeFuncs[recv]
        IN \A k \in 1..Len(trace) :
              trace[k].ev = "shouldSkipNode" =>
                 LET x == trace[k].node
                     seg == Segment(trace, k)
                     m == Len(seg)
                 IN /\ m <= Len(F)
                    /\ \A i \in 1..m :
                          /\ seg[i].h = F[i]
                          /\ seg[i].node = x
                          /\ seg[i].out = "true" <=> handler(F[i], x)
                          /\ i < m => seg[i].out = "false"
                    /\ trace[k].out = "true" <=> (m > 0 /\ seg[m].out = "true")
                    /\ trace[k].out = "false" => m = Len(F)
                    /\ trace[k].out = "true" <=> Skips(recv, x)
                    /\ trace[k].out = "true" => x \notin VisitedSet
                    /\ F = << >> => trace[k].out = "false"

\* node 1 of 1(2,3) has the handlers "Value == 3", "Value == 2" in this
\* order: the pre-order walk has called both for node 1, both for node 2 and
\* only the first for node 3, and has visited node 1 only
C24_Witness ==
    /\ op = "WalkPreOrder" /\ recv = 1 /\ ret = NoErr
    /\ Left = <<2, 0, 0>> /\ Right = <<3, 0, 0>>
    /\ skipNodeFuncs[1] = <<3, 2>>
    /\ Visited = <<1>>
    /\ Len(HandlerCalls(trace)) = 5

PopFuncs == {"PopBack", "PopFront"}
PeekFuncs == {"PeekFront", "PeekBack"}
\* goroutine g has returned from a call of one of the functions fns
Done(g, fns) == proc[g].pc = "idle" /\ proc[g].fn \in fns

\* C25: under concurrent callers every call on the Deque takes effect as in
\* some serial order of the calls: no pop or peek that races with a pop
\* indexes an empty d.items, and each returns an item of the deque with a nil
\* error or the zero value with ErrEmptyQueue.
C25_Atomic ==
    \A g \in Goroutines :
        /\ proc[g].pc # "panic"
        /\ Done(g, PopFuncs \cup PeekFuncs) =>
              \/ proc[g].err = NoErr /\ proc[g].item \in DequeValues
              \/ proc[g].err = ErrEmptyQueue /\ proc[g].item = Zero

\* C26: with one goroutine, a PopFront, PopBack, PeekFront or PeekBack on an
\* empty deque returns the zero value with ErrEmptyQueue and leaves the deque
\* empty; on a non-empty deque it returns a nil error; no step of a peek
\* changes d.items, so neither the contents nor Length change.
C26_EmptyQueue ==
    [][LET p == proc[1]
           q == proc'[1]
       IN p.fn \in PopFuncs \cup PeekFuncs /\ p.pc # "idle" =>
             /\ q.pc # "panic"
             /\ q.pc # "idle" => deque'.items = deque.items
             /\ q.pc = "idle" =>
                   IF deque.items = << >>
                   THEN /\ q.err = ErrEmptyQueue
                        /\ q.item = Zero
                        /\ deque'.items = << >>
                   ELSE q.err = NoErr
             /\ p.fn \in PeekFuncs =>
                   /\ deque'.items = deque.items
                   /\ Len(deque'.items) = Len(deque.items)]_vars

\* a PopBack that found the deque empty after two pushes and two pops
C26_Witness ==
    /\ Done(1, {"PopBack"})
    /\ proc[1].err = ErrEmptyQueue
    /\ proc[1].item = Zero
    /\ deque.items = << >>
    /\ pushes = 2
    /\ pops = 2

\* C30: with one goroutine the Deque is a sequence.  PushFront puts its
\* argument before the items and PushBack after them; a PopFront or PopBack
\* that returns an item returns the first or the last item and removes it;
\* Length() is the pushes minus the pops that returned an item, and
\* IsEmpty() is Length() == 0.
C30_Sequence ==
    /\ [](/\ Len(deque.items) = pushes - pops
          /\ Done(1, {"Length"}) => proc[1].length = pushes - pops
          /\ Done(1, {"IsEmpty"}) => (proc[1].empty <=> pushes - pops = 0))
    /\ [][LET p == proc[1]
              q == proc'[1]
              s == deque.items
              t == deque'.items
          IN p.pc # "idle" /\ q.pc = "idle" =>
                /\ p.fn = "PushFront" => t = <<p.arg>> \o s
                /\ p.fn = "PushBack" => t = s \o <<p.arg>>
                /\ p.fn = "PopFront" /\ q.err = NoErr =>
                      s # << >> /\ q.item = Head(s) /\ t = Tail(s)
                /\ p.fn = "PopBack" /\ q.err = NoErr =>
                      /\ s # << >>
                      /\ q.item = s[Len(s)]
                      /\ t = SubSeq(s, 1, Len(s) - 1)
                /\ p.fn \in PopFuncs /\ q.err # NoErr => s = << >> /\ t = s
                /\ p.fn \in {"IsEmpty", "Length"} \cup PeekFuncs => t = s]_vars

\* PushBack(1), PushBack(2), PushFront(1), then PopBack returns 2: the last
\* PushBack is the first out at the back, the first PushBack the next
C30_Witness ==
    /\ Done(1, {"PopBack"})
    /\ proc[1].err = NoErr
    /\ proc[1].item = 2
    /\ deque.items = <<1, 1>>
    /\ pushes = 3
    /\ pops = 1

IsNodeLine(l) == l.kind = "node"
IsEdgeLine(l) == l.kind = "edge"
\* how many lines of out are the line l
Count(out, l) == Cardinality({i \in 1..Len(out) : out[i] = l})

\* C27: a WriteDot that returns nil, on a receiver without skip handlers, has
\* written "digraph {" first and "}" last and nowhere else; the node
\* declarations are those of the nodes of the tree, one each, in pre-order;
\* the edge lines are those of the child links, one each, Size()-1 in all;
\* the declaration of a node is followed at once by its left edge, if it has
\* a left child, and then by its right edge, if it has a right child.
C27_WriteDot ==
    op = "WriteDot" /\ skipNodeFuncs[recv] = << >> /\ ret.err = NoErr =>
        LET out == ret.out
            pre == preorder(recv)
            decl == SelectSeq(out, IsNodeLine)
            edges == SelectSeq(out, IsEdgeLine)
        IN /\ Len(out) >= 2
           /\ out[1].kind = "digraph {"
           /\ out[Len(out)].kind = "}"
           /\ \A i \in 2..(Len(out) - 1) : out[i].kind \notin {"digraph {", "}"}
           /\ Len(decl) = Len(pre)
           /\ \A i \in 1..Len(pre) :
                 /\ decl[i].id = pre[i]
                 /\ decl[i].value = Value[pre[i]]
           /\ Len(edges) = Size(recv) - 1
           /\ \A m \in Subtree(recv) :
                 /\ Count(out, [kind |-> "edge", from |-> m, port |-> "l",
                                to |-> Left[m]])
                       = IF Left[m] # Nil THEN 1 ELSE 0
                 /\ Count(out, [kind |-> "edge", from |-> m, port |-> "r",
                                to |-> Right[m]])
                       = IF Right[m] # Nil THEN 1 ELSE 0
           /\ \A i \in 1..Len(out) :
                 out[i].kind = "node" =>
                    LET m == out[i].id
                        l == IF Left[m] # Nil THEN 1 ELSE 0
                        r == IF Right[m] # Nil THEN 1 ELSE 0
                    IN /\ l = 1 => out[i + 1].kind = "edge"
                                   /\ out[i + 1].from = m
                                   /\ out[i + 1].port = "l"
                       /\ r = 1 => out[i + l + 1].kind = "edge"
                                   /\ out[i + l + 1].from = m
                                   /\ out[i + l + 1].port = "r"
                       /\ out[i + l + r + 1].kind \in {"node", "}"}

\* the tree 1(2(3), 4) written in full: ten lines, the fifth the right edge
\* of the root, the sixth the declaration of its left child
C27_Witness ==
    /\ op = "WriteDot"
    /\ recv = 1
    /\ Left = <<2, 3, 0, 0>>
    /\ Right = <<4, 0, 0, 0>>
    /\ skipNodeFuncs[1] = << >>
    /\ ret.err = NoErr
    /\ Len(ret.out) = 10
    /\ ret.out[5] = [kind |-> "edge", from |-> 1, port |-> "r", to |-> 4]
    /\ ret.out[6].kind = "node"
    /\ ret.out[6].id = 2

InCall(fns) == run.fn \in fns
\* the run got ErrEmptyQueue from a PopFront: it panicked, or (the second
\* loop of WalkPostOrder) returned the error
GotEmptyQueue ==
    IF run.fn \in WalkNames
    THEN run.st.ret \in {Panic, ErrEmptyQueue}
    ELSE run.st.panic

\* C28: in every state of a call of WalkInOrder, WalkPreOrder,
\* WalkPostOrder, WalkLevelOrder, Height, FindNode, IsFull, IsDegenerate or
\* IsBalanced by a single caller, no PopFront has been made on an empty
\* deque: every PopFront made returned an item, none returned
\* ErrEmptyQueue, and no panic(err) was reached.
C28_NoEmptyPop ==
    InCall(RunFuncs \ {"Size"}) =>
        /\ ~GotEmptyQueue
        /\ run.popped <= Len(run.entered)

\* a WalkPostOrder of the tree 1(2, 3) that has returned nil after six
\* PopFront calls, three on stack and three on result
C28_Witness ==
    /\ InCall({"WalkPostOrder"})
    /\ run.n = 1
    /\ Left = <<2, 0, 0>>
    /\ Right = <<3, 0, 0>>
    /\ run.st.pc = "done"
    /\ run.st.ret = NoErr
    /\ run.popped = 6
    /\ run.st.stack = << >>
    /\ run.st.result = << >>

\* no node was pushed twice on the same worklist
EnteredOnce ==
    \A i, j \in 1..Len(run.entered) :
        i # j => run.entered[i] # run.entered[j]
\* the function returned before its loop test failed: a walk with the error
\* of its WalkFunc, FindNode with the node found, a check with false
ReturnedEarly ==
    CASE run.fn \in WalkNames -> run.st.ret # NoErr
      [] run.fn = "FindNode" -> run.st.ok
      [] run.fn \in {"IsFull", "IsDegenerate", "IsBalanced"} -> ~run.st.ret
      [] OTHER -> FALSE
\* the worklists of the call are empty
WorklistsEmpty ==
    /\ run.st.stack = << >>
    /\ run.fn \in WalkNames => run.st.result = << >>
\* every call in progress returns
Terminates == InCall(RunFuncs) ~> (InCall(RunFuncs) /\ run.st.pc = "done")

\* C29, as claimed: every call of a walk, Size, Height, FindNode, IsFull,
\* IsDegenerate or IsBalanced returns; no node is pushed twice on a
\* worklist; every loop iteration pops one item; the call returns with its
\* worklists empty, or early.
C29_Original ==
    /\ Terminates
    /\ [](InCall(RunFuncs) =>
             /\ EnteredOnce
             /\ run.popped = run.iters
             /\ run.st.pc = "done" => WorklistsEmpty \/ ReturnedEarly)

\* C29: every call of a walk, Size, Height, FindNode, IsFull, IsDegenerate
\* or IsBalanced returns; no node is pushed twice on a worklist; every loop
\* iteration pops one item, but for an iteration of WalkInOrder or Size that
\* finds its node skipped and the stack empty, which pops none and is the
\* last; the call returns with its worklists empty, or early.
C29_Terminates ==
    /\ Terminates
    /\ [](InCall(RunFuncs) =>
             /\ EnteredOnce
             /\ \/ run.popped = run.iters
                \/ /\ run.fn \in {"WalkInOrder", "Size"}
                   /\ run.popped = run.iters - 1
                   /\ run.st.node = Nil
                   /\ run.st.stack = << >>
                   /\ run.st.trace # << >>
                   /\ run.st.trace[Len(run.st.trace)]
                         = SkipEv(run.st.trace[Len(run.st.trace)].node, TRUE)
             /\ run.st.pc = "done" => WorklistsEmpty \/ ReturnedEarly)

\* WalkInOrder of 1(right 2) whose receiver skips 2, returned: the first
\* iteration pushed and popped 1, the second found 2 skipped and the stack
\* empty
C29_Witness ==
    /\ InCall({"WalkInOrder"})
    /\ run.n = 1
    /\ Left = <<0, 0>>
    /\ Right = <<2, 0>>
    /\ skipNodeFuncs[1] = <<2>>
    /\ run.st.pc = "done"
    /\ run.st.ret = NoErr
    /\ run.entered = << <<"stack", 1>> >>
    /\ run.iters = 2
    /\ run.popped = 1

\* the names node n holds, in the order the caller added them
AddedNames(n) ==
    SelectSeq(AttrOrder, LAMBDA k : k \in DOMAIN dotAttributes[n])
\* name=value of the names[i..], separated by single spaces
RECURSIVE Joined(_, _, _)
Joined(m, names, i) ==
    IF i > Len(names) THEN << >>
    ELSE <<names[i], "=", m[names[i]]>>
         \o (IF i < Len(names) THEN <<" ">> ELSE << >>)
         \o Joined(m, names, i + 1)

\* C31: GetDotAttributes returns every attribute of the node once, as
\* name=value, separated by single spaces, with no trailing space, in the
\* order the attributes were added; the empty string when there are none.
C31_InsertionOrder ==
    op = "GetDotAttributes" =>
        ret = Joined(dotAttributes[recv], AddedNames(recv), 1)

---------------------------------------------------------------------------
\* The pruned tree of a walk on n: the tree below n without the nodes that
\* a handler of n returns true for, and without their subtrees.
PrunedRoot(n) == IF Skips(n, n) THEN Nil ELSE n
PrunedLeft(n) ==
    [x \in Nodes |-> IF Left[x] # Nil /\ Skips(n, Left[x]) THEN Nil ELSE Left[x]]
PrunedRight(n) ==
    [x \in Nodes |->
        IF Right[x] # Nil /\ Skips(n, Right[x]) THEN Nil ELSE Right[x]]

\* the textbook orders of the tree with child links l and r
RECURSIVE inorderOf(_, _, _)
inorderOf(l, r, x) ==
    IF x = Nil THEN << >>
    ELSE inorderOf(l, r, l[x]) \o <<x>> \o inorderOf(l, r, r[x])

RECURSIVE preorderOf(_, _, _)
preorderOf(l, r, x) ==
    IF x = Nil THEN << >>
    ELSE <<x>> \o preorderOf(l, r, l[x]) \o preorderOf(l, r, r[x])

RECURSIVE postorderOf(_, _, _)
postorderOf(l, r, x) ==
    IF x = Nil THEN << >>
    ELSE postorderOf(l, r, l[x]) \o postorderOf(l, r, r[x]) \o <<x>>

\* the children of the nodes of one level, left to right
RECURSIVE childrenOf(_, _, _, _)
childrenOf(l, r, level, i) ==
    IF i > Len(level) THEN << >>
    ELSE (IF l[level[i]] # Nil THEN <<l[level[i]]>> ELSE << >>)
         \o (IF r[level[i]] # Nil THEN <<r[level[i]]>> ELSE << >>)
         \o childrenOf(l, r, level, i + 1)

RECURSIVE levelsOf(_, _, _)
levelsOf(l, r, level) ==
    IF level = << >> THEN << >>
    ELSE level \o levelsOf(l, r, childrenOf(l, r, level, 1))

levelorderOf(l, r, x) == levelsOf(l, r, IF x = Nil THEN << >> ELSE <<x>>)

orderOf(name, l, r, x) ==
    CASE name = "WalkInOrder" -> inorderOf(l, r, x)
      [] name = "WalkPreOrder" -> preorderOf(l, r, x)
      [] name = "WalkPostOrder" -> postorderOf(l, r, x)
      [] name = "WalkLevelOrder" -> levelorderOf(l, r, x)

SeqSet(s) == {s[i] : i \in 1..Len(s)}

\* C32: each of the four walks visits, in order, the nodes of the in-order,
\* pre-order, post-order or level-order sequence of the pruned tree (the
\* tree without every node a handler of the receiver returns true for and
\* without its subtree), which with no handlers is the sequence of the tree
\* itself: all of it when the visitor returns no error, the part up to the
\* failing call otherwise.  So the four walks visit one set of nodes, those
\* with no skipped ancestor-or-self.
C32_PrunedTree ==
    op \in WalkOps =>
        LET l == PrunedLeft(recv)
            r == PrunedRight(recv)
            x == PrunedRoot(recv)
            order == orderOf(op, l, r, x)
        IN /\ IsPrefix(Visited, order)
           /\ ret = NoErr => Visited = order
           /\ \A name \in WalkOps :
                 SeqSet(orderOf(name, l, r, x)) = Kept(recv)

C32_Witness ==
    /\ op = "WalkPostOrder" /\ recv = 1 /\ ret = NoErr
    /\ Left = <<2, 0, 0, 0>> /\ Right = <<3, 4, 0, 0>>
    /\ skipNodeFuncs = << <<2>>, << >>, << >>, << >> >>
    /\ Value = <<1, 2, 3, 4>>
    /\ Visited = <<3, 1>>

\* C33: when a handler of the receiver returns true for the receiver itself,
\* each of the four walks returns nil without a call of the visitor, and
\* Size() of that node is 0.
C33_SkippedReceiver ==
    /\ (op \in WalkOps /\ Skips(recv, recv)) =>
          (Calls(trace) = 0 /\ ret = NoErr)
    /\ (op = "Size" /\ Skips(recv, recv)) => ret = 0
    /\ \A n \in Nodes : Skips(n, n) => Size(n) = 0

C33_Witness ==
    /\ op = "Size" /\ recv = 2 /\ ret = 0
    /\ SmallTree
    /\ skipNodeFuncs = << << >>, <<2>>, << >>, << >> >>

\* the calls of shouldSkipNode of the last call, and of handlers, on node x
IsSkipCall(e) == e.ev = "shouldSkipNode"
Evals(x) == Len(SelectSeq(trace, LAMBDA e : IsSkipCall(e) /\ e.node = x))
HandlerEvals(x) ==
    Len(SelectSeq(trace, LAMBDA e : IsHandlerCall(e) /\ e.node = x))
Evaluated == {x \in Nodes : Evals(x) > 0}

\* the root of the walk and the existing children of the visited nodes
Candidates ==
    {recv} \cup {x \in Nodes : \E v \in VisitedSet : x \in {Left[v], Right[v]}}

\* C34: in each of the four walks shouldSkipNode is called at most once on
\* a node, and each handler of the receiver at most once on it; it is never
\* called on a proper descendant of a node it returned true for; in a walk
\* that returns nil it is called exactly once on the receiver and on each
\* existing child of a visited node, and on no other node; in WalkInOrder,
\* WalkPreOrder and WalkLevelOrder the call on a node, returning false,
\* precedes the visit of that node.
C34_SkipOnce ==
    op \in WalkOps =>
        /\ \A x \in Nodes :
              /\ Evals(x) <= 1
              /\ HandlerEvals(x) <= Len(skipNodeFuncs[recv])
        /\ \A x \in Evaluated :
              /\ x \in Subtree(recv)
              /\ \A y \in Evaluated :
                    (y # x /\ x \in Subtree(y))
                        => SkipEv(y, TRUE) \notin SeqSet(trace)
        /\ ret = NoErr => Evaluated = Candidates
        /\ recv \in Evaluated
        /\ op # "WalkPostOrder" =>
              \A j \in 1..Len(trace) :
                  IsVisit(trace[j]) =>
                      \E i \in 1..(j - 1) :
                          trace[i] = SkipEv(trace[j].node, FALSE)

C34_Witness ==
    /\ op = "WalkInOrder" /\ recv = 1 /\ ret = NoErr
    /\ SmallTree
    /\ skipNodeFuncs = << <<2>>, << >>, << >>, << >> >>
    /\ Evaluated = {1, 2, 3}
    /\ Evals(4) = 0
    /\ Visited = <<1, 3>>

\* the nodes the running walk has called walkFunc with, and those together
\* with the ones WalkPostOrder holds in result to call it with
RunVisited ==
    [i \in 1..Calls(run.st.trace) |-> Visits(run.st.trace)[i].node]
Plan == RunVisited \o run.st.result
PostOrderRun == run.fn = "WalkPostOrder"

\* in a running walk: WalkPostOrder calls no handler and makes no skip check
\* after a call of walkFunc; it calls walkFunc in its second loop only; when
\* it enters its second loop, result holds the post-order of the pruned
\* tree.  The other three walks, when they return nil, have visited the
\* order of the pruned tree as walkFunc left it.
PhasesOfRun ==
    /\ PostOrderRun =>
          \A i, j \in 1..Len(run.st.trace) :
              (IsVisit(run.st.trace[i]) /\ i < j) => IsVisit(run.st.trace[j])
    /\ (PostOrderRun /\ run.st.pc = "loop") => Calls(run.st.trace) = 0
    /\ (PostOrderRun /\ run.st.pc = "drain" /\ Calls(run.st.trace) = 0) =>
          run.st.result = postorderOf(PrunedLeft(run.n), PrunedRight(run.n),
                                      PrunedRoot(run.n))
    /\ ( /\ run.fn \in {"WalkInOrder", "WalkPreOrder", "WalkLevelOrder"}
         /\ run.st.pc = "done"
         /\ run.st.ret = NoErr ) =>
          RunVisited = orderOf(run.fn, PrunedLeft(run.n), PrunedRight(run.n),
                               PrunedRoot(run.n))

\* an iteration of the second loop of WalkPostOrder does the same whatever
\* walkFunc does to the tree, and visits the front of result: the visited
\* nodes and the ones in result, taken together, stay as they are
DrainStep ==
    (PostOrderRun /\ run.st.pc = "drain" /\ run'.fn = "WalkPostOrder") =>
        /\ \A cur \in {run} : Stepped(cur)' = Stepped(cur)
        /\ IsPrefix(RunVisited', Plan)
        /\ run'.st.ret = NoErr => Plan' = Plan

\* C35: WalkPostOrder makes every skip check, and reads every child link,
\* in its first loop, before its first call of walkFunc: the nodes it
\* visits and their order are those of the pruned tree at that moment,
\* whatever walkFunc does to the tree; the other three walks read child
\* links between the calls of walkFunc and follow the tree as it leaves it.
C35_PostOrderPhases == []PhasesOfRun /\ [][DrainStep]_vars

C35_Witness ==
    /\ PostOrderRun /\ run.n = 1 /\ run.st.pc = "done"
    /\ "growAt" \in DOMAIN run.arg
    /\ Left = <<2, 0, 0, 0>> /\ Right = <<3, 4, 0, 0>>
    /\ RunVisited = <<2, 3, 1>>

\* the first node in pre-order below n that p is true for, Nil when none
FirstMatch(n, p) ==
    LET pre == preorder(n)
        match == {i \in 1..Len(pre) : predicate(p, pre[i])}
    IN IF match = {} THEN Nil
       ELSE pre[CHOOSE i \in match : \A j \in match : i <= j]

\* the results of the operations that never call shouldSkipNode are what
\* the child links and the values make them
SkipFree ==
    \A n \in Nodes :
        /\ Height(n) = longestPath(n)
        /\ IsFull(n) = (\A m \in Subtree(n) : Cardinality(Children(m)) # 1)
        /\ IsDegenerate(n)
              = (\A m \in Subtree(n) : Cardinality(Children(m)) # 2)
        /\ IsBalanced(n) = (\A m \in Subtree(n) : BalancedAt(m))
        /\ \A p \in RunArgs("FindNode") :
              LET st == FindNode(n, p)
              IN /\ st.node = FirstMatch(n, p)
                 /\ st.ok = (FirstMatch(n, p) # Nil)
                 /\ \A i \in 1..Len(st.trace) :
                       st.trace[i].ev = "predicate"

\* C36: whatever handlers AddSkipNodeFunc has registered, on whatever
\* nodes, Height, FindNode, IsFull, IsDegenerate and IsBalanced of every
\* node return what the child links and the values alone determine, and a
\* call of AddSkipNodeFunc changes no child link and no value: it leaves
\* the results of these operations as they were.
C36_SkipIndependent ==
    /\ []SkipFree
    /\ [][op' = "AddSkipNodeFunc" => UNCHANGED <<Value, Left, Right>>]_vars

C36_Witness ==
    /\ op = "IsDegenerate" /\ recv = 1 /\ ret = FALSE
    /\ Left = <<2, 0, 0>> /\ Right = <<3, 0, 0>>
    /\ skipNodeFuncs = << <<2>>, << >>, << >> >>
    /\ Size(1) = 2
    /\ Height(1) = 1

CallOps ==
    WalkOps \cup {"Size", "Height", "IsLeaf", "FindNode", "IsFull",
                  "IsDegenerate", "IsBalanced"}

C38_EdgesDeclared ==
    (op = "WriteDot" /\ ret.err = NoErr) =>
        \A i \in 1..Len(ret.out) :
            IsEdgeLine(ret.out[i]) =>
                \E j \in 1..Len(ret.out) :
                    /\ IsNodeLine(ret.out[j])
                    /\ ret.out[j].id = ret.out[i].to

\* goroutine g holds the mutex, as the writer or as a reader
Holds(g) == deque.w = g \/ g \in deque.r

\* a goroutine that is about to acquire the mutex ("entry", and "checked"
\* after the nested d.IsEmpty()) holds none, and one that has returned, or
\* panicked and run its deferred calls, holds none
LockDiscipline ==
    \A g \in Goroutines :
        proc[g].pc \in {"idle", "entry", "checked", "panic"} => ~Holds(g)

\* C39: no function of the Deque acquires the mutex while it holds it,
\* every acquisition is released when the function returns, and under a
\* fair scheduler every call returns.
C39_NoDeadlock ==
    /\ []LockDiscipline
    /\ \A g \in Goroutines : (proc[g].pc # "idle") ~> (proc[g].pc = "idle")

====
